---- MODULE Spec2Model ----
(***************************************************************************)
(* Model of the telegram-bot of vas3kampctf25: the coordination layer      *)
(* (src/telegram-bot/src/api.rs) over the Redis store, and the delivery    *)
(* queue (src/telegram-bot/src/sender.rs).                                 *)
(*                                                                         *)
(* The runtime is tokio's current_thread runtime (main.rs:37): tasks       *)
(* interleave only at .await points.  One action of a task is therefore    *)
(* "resume from the await, run the synchronous code that follows, issue    *)
(* the next awaited operation".  All store commands go through clones of   *)
(* one multiplexed connection, so Redis executes them in the order they    *)
(* are issued: a command takes effect (and its reply is latched in the     *)
(* task's locals) in the action that issues it, and the reply is acted on  *)
(* in the task's next action.                                              *)
(***************************************************************************)
EXTENDS Integers, Sequences, FiniteSets, TLC

(***************************************************************************)
(* Bounds of the model.                                                    *)
(***************************************************************************)
\* handler tasks the dispatcher runs concurrently; each handles one update
NumHandlers == 2

\* notifications produced over a run
MaxMsgs == 3
\* Transport failures per notification (the Transport eventually succeeds)
MaxFail == 1
\* capacity of the intake channel (1024 in the program, sender.rs:63)
ChanCap == 1
\* the global quota per replenishment (30 in the program, sender.rs:58)
LIMIT_RATE_PER_ALL == 2
\* calls of the contact buffer's functions in one run
MaxOps == 4

\* updates taken in one run
MaxUpdates == 3

\* minimum spacing per destination, ms
LIMIT_RATE_PER_CHAT == 1000
\* the replenisher's period, ms
REPLENISH_MS == 1000
\* the poll interval when the quota is exhausted, ms
POLL_MS == 100
\* time advances in steps of half the spacing
TickMs == LIMIT_RATE_PER_CHAT \div 2

Handlers == 1..NumHandlers
\* participants (telegram ids)
Users == {1, 2}
\* the values uuid's first group can take (2^32 in the program)
KeyIds == {"a1", "b2", "c3"}
\* destinations (chat ids)
Dests == {1, 2}

(***************************************************************************)
(* Option<T> as a sequence of length 0 or 1.                               *)
(***************************************************************************)
None == << >>
Some(v) == << v >>
is_some(o) == Len(o) = 1
unwrap(o) == o[1]

(***************************************************************************)
(* Text: a string is a sequence of one-character strings.                  *)
(***************************************************************************)
IsSpace(c) == c \in {" ", "\t", "\n", "\r"}

UpperChars == <<"A", "B", "F", "G", "H">>
LowerChars == <<"a", "b", "f", "g", "h">>

LowerChar(c) ==
    IF \E i \in 1..Len(UpperChars) : UpperChars[i] = c
    THEN LowerChars[CHOOSE i \in 1..Len(UpperChars) : UpperChars[i] = c]
    ELSE c

to_lowercase(s) == [i \in 1..Len(s) |-> LowerChar(s[i])]

RECURSIVE trim_start(_)
trim_start(s) ==
    IF s = << >> THEN s
    ELSE IF IsSpace(Head(s)) THEN trim_start(Tail(s)) ELSE s

RECURSIVE trim_end(_)
trim_end(s) ==
    IF s = << >> THEN s
    ELSE IF IsSpace(s[Len(s)]) THEN trim_end(SubSeq(s, 1, Len(s) - 1)) ELSE s

\* a trim that leaves the whitespace at the end
trim_start_only(s) == trim_start(s)

trim(s) == trim_end(trim_start(s))

RECURSIVE SplitAcc(_, _, _, _)
SplitAcc(s, sep, cur, acc) ==
    IF s = << >> THEN Append(acc, cur)
    ELSE IF Head(s) = sep
         THEN SplitAcc(Tail(s), sep, << >>, Append(acc, cur))
         ELSE SplitAcc(Tail(s), sep, Append(cur, Head(s)), acc)

\* str::split(sep): always at least one piece
split(s, sep) == SplitAcc(s, sep, << >>, << >>)

\* str::lines(): pieces between "\n"; a final empty piece is no line
lines(s) ==
    LET parts == split(s, "\n")
    IN  IF parts[Len(parts)] = << >> THEN SubSeq(parts, 1, Len(parts) - 1)
        ELSE parts

RECURSIVE join(_, _)
join(ss, sep) ==
    IF ss = << >> THEN << >>
    ELSE IF Len(ss) = 1 THEN ss[1]
    ELSE ss[1] \o <<sep>> \o join(Tail(ss), sep)

starts_with(s, prefix) ==
    Len(s) >= Len(prefix) /\ SubSeq(s, 1, Len(prefix)) = prefix

HiddenPrefix == <<"h", "i", "d", "d", "e", "n", ":">>

(***************************************************************************)
(* Task and the parser of the administrator's text.                        *)
(***************************************************************************)
DefaultTask ==
    [name |-> << >>, flag |-> [multi |-> FALSE, vals |-> << << >> >>],
     hint |-> << >>, hidden |-> FALSE]

string_to_task(text) ==
    LET ls == [i \in 1..Len(lines(text)) |-> trim(lines(text)[i])]
    IN  IF Len(ls) < 3 THEN [ok |-> FALSE, task |-> DefaultTask]
        ELSE
          LET raw == split(ls[2], ",")
              flag_str == [i \in 1..Len(raw) |-> to_lowercase(trim(raw[i]))]
              hidden == starts_with(ls[1], HiddenPrefix)
              name == IF hidden
                      THEN SubSeq(ls[1], Len(HiddenPrefix) + 1, Len(ls[1]))
                      ELSE ls[1]
              hint == join(SubSeq(ls, 3, Len(ls)), "\n")
          IN  [ok |-> TRUE,
               task |-> [name |-> trim(name),
                         flag |-> [multi |-> Len(flag_str) # 1, vals |-> flag_str],
                         hint |-> trim(hint),
                         hidden |-> hidden]]

\* FlagType::Single(s) => s == try_flag;  FlagType::Multi(vs) => any
flag_matches(flag, try_flag) ==
    IF flag.multi
    THEN \E i \in 1..Len(flag.vals) : flag.vals[i] = try_flag
    ELSE flag.vals[1] = try_flag

(***************************************************************************)
(* Inputs.                                                                 *)
(***************************************************************************)
\* "A\nF\nh": visible task A, single answer f
TaskTextA == <<"A", "\n", "F", "\n", "h">>
\* "hidden:B\n f , G \nh": hidden task B, answers f and g
TaskTextB == HiddenPrefix \o <<"B", "\n", " ", "f", " ", ",", " ", "G", " ", "\n", "h">>
\* two lines only: rejected
TaskTextShort == <<"A", "\n", "f">>
TaskTexts == {TaskTextA, TaskTextB, TaskTextShort}

\* what participants send
SubmitTexts == { <<"f">>, <<" ", "F", "\t">>, <<"x">>, <<"G", " ">> }

(***************************************************************************)
(* State.                                                                  *)
(***************************************************************************)
VARIABLES
    tasks,      \* the store's task:<id> keys: [subset of KeyIds -> Task]
    solves,     \* the store's solve:<user> keys: [subset of Users -> Seq(KeyIds)]
    mutex,      \* Api.mutex: [locked, val]
    lockq,      \* the tasks waiting in mutex.lock(), first come first served
    h,          \* the handler tasks: position and locals
    faults,     \* whether store commands can fail in this specification
    deletedKeys, \* history: the ids delete_task has removed
    chan,       \* the intake channel's buffer (tokio mpsc, bounded)
    cap,        \* the capacity the channel was made with
    sendq,      \* the send() calls waiting for a slot, first come first served
    c,          \* the consumer loop of MessageSender::start: [pc, msg, timer]
    counter,    \* the quota counter (AtomicI64)
    replTimer,  \* ms left of the replenisher's sleep
    timeouts,   \* per destination, ms since its recorded SystemTime (capped)
    nextId,     \* the next notification a producer makes
    accepted,   \* history: the notifications the channel has accepted
    invocations, \* history: Transport calls started, per notification
    failures,   \* history: Transport calls failed, per notification
    delivered,  \* history: the notifications the Transport accepted, in order
    deferred,   \* history: the notifications deferred for spacing
    sentSinceRepl, \* history: Transport calls started since the last replenishment
    deferredSinceRepl, \* history: spacing deferrals since the last replenishment
    firstToLast, \* history: per destination, ms from its first to its last delivery
    profiles,   \* the store's user:<id> keys: [subset of Participants -> Vas3kUser]
    rd,         \* the task of one read operation: position, locals and result
    contacts,   \* the store's contact:<user> keys: [subset of Users -> String]
    appended,   \* history: per participant, the texts appended since the last flush
    ct,         \* the handler of the contact sessions: position, locals and result
    user_state, \* the store's user_state:<id> keys: [subset of Participants -> String]
    upd,        \* per chat, the update being handled: position and locals
    updates,    \* the number of updates the dispatcher has taken
    invoked     \* history: <<user, function>> for each call of a directory mutator

apiVars == <<tasks, solves, mutex, lockq, h, deletedKeys>>

queueVars == <<chan, cap, sendq, c, counter, replTimer, timeouts, nextId, accepted,
               invocations, failures, delivered, deferred, sentSinceRepl,
               deferredSinceRepl, firstToLast>>

readVars == <<profiles, rd>>

contactVars == <<contacts, appended, ct>>

sessionVars == <<user_state, upd, updates, invoked>>

vars == <<apiVars, faults, queueVars, readVars, contactVars, sessionVars>>

IdleHandler ==
    [pc |-> "idle", op |-> "none", user |-> 0, try_flag |-> << >>,
     keys |-> << >>, task_key |-> "", got_task |-> None, got_solve |-> None,
     task |-> DefaultTask, name |-> << >>, ret |-> "none",
     waited |-> FALSE, overwrote |-> FALSE, faulted |-> FALSE]

\* a finished call: what it was, what it returned; the locals are dropped
Return(rec, ret) ==
    [IdleHandler EXCEPT !.pc = "done", !.op = rec.op, !.user = rec.user,
                        !.task_key = rec.task_key, !.ret = ret,
                        !.try_flag = rec.try_flag,
                        !.waited = rec.waited, !.overwrote = rec.overwrote,
                        !.faulted = rec.faulted]

\* the outcomes of one store command
StoreOutcomes == IF faults THEN BOOLEAN ELSE {TRUE}

(***************************************************************************)
(* Store accessors.                                                        *)
(***************************************************************************)
\* GET + serde_json::from_slice: None when the key is absent or the command fails
collect_from_cache(store, key, ok) ==
    IF ok /\ key \in DOMAIN store THEN Some(store[key]) ELSE None

\* SET: a failure is logged and otherwise ignored
put_into_cache(store, key, value, ok) ==
    IF ok THEN [k \in DOMAIN store \cup {key} |-> IF k = key THEN value ELSE store[k]]
    ELSE store

\* DEL
del_from_cache(store, key, ok) ==
    IF ok THEN [k \in DOMAIN store \ {key} |-> store[k]] ELSE store

\* KEYS pattern: every order is possible; empty when the command fails
Orders(S) ==
    {s \in [1..Cardinality(S) -> S] : \A i, j \in 1..Cardinality(S) : i # j => s[i] # s[j]}

get_keys(store, ok) == IF ok THEN Orders(DOMAIN store) ELSE { << >> }

Contains(seq, x) == \E i \in 1..Len(seq) : seq[i] = x

Count(seq, x) == Cardinality({i \in 1..Len(seq) : seq[i] = x})

(***************************************************************************)
(* Api.mutex: tokio::sync::Mutex, a fair (FIFO) lock.                      *)
(***************************************************************************)
\* a delete_task that also takes the task out of every ledger
CSEnter_delete_clears(p, rec, ok) ==
    CASE rec.op = "submit" ->
            \* is_solved: GET solve:<user>
            /\ h' = [h EXCEPT ![p] = [rec EXCEPT !.pc = "s_is_solved",
                        !.faulted = @ \/ ~ok,
                        !.got_solve = collect_from_cache(solves, rec.user, ok)]]
            /\ UNCHANGED <<tasks, solves, deletedKeys>>
      [] rec.op = "create" ->
            \* while collect_from_cache(key).is_some()
            /\ h' = [h EXCEPT ![p] = [rec EXCEPT !.pc = "c_check",
                        !.faulted = @ \/ ~ok,
                        !.got_task = collect_from_cache(tasks, rec.task_key, ok)]]
            /\ UNCHANGED <<tasks, solves, deletedKeys>>
      [] rec.op = "edit" ->
            /\ h' = [h EXCEPT ![p] = [rec EXCEPT !.pc = "e_put", !.faulted = @ \/ ~ok]]
            /\ tasks' = put_into_cache(tasks, rec.task_key, rec.task, ok)
            /\ UNCHANGED <<solves, deletedKeys>>
      [] rec.op = "delete" ->
            /\ h' = [h EXCEPT ![p] = [rec EXCEPT !.pc = "d_del", !.faulted = @ \/ ~ok]]
            /\ tasks' = del_from_cache(tasks, rec.task_key, ok)
            /\ deletedKeys' = IF ok THEN deletedKeys \cup {rec.task_key} ELSE deletedKeys
            /\ solves' = [u \in DOMAIN solves |->
                            SelectSeq(solves[u], LAMBDA k : k # rec.task_key)]

\* the first awaited store command inside the lock, by operation
CSEnter(p, rec, ok) ==
    CASE rec.op = "submit" ->
            \* is_solved: GET solve:<user>
            /\ h' = [h EXCEPT ![p] = [rec EXCEPT !.pc = "s_is_solved",
                        !.faulted = @ \/ ~ok,
                        !.got_solve = collect_from_cache(solves, rec.user, ok)]]
            /\ UNCHANGED <<tasks, solves, deletedKeys>>
      [] rec.op = "create" ->
            \* while collect_from_cache(key).is_some()
            /\ h' = [h EXCEPT ![p] = [rec EXCEPT !.pc = "c_check",
                        !.faulted = @ \/ ~ok,
                        !.got_task = collect_from_cache(tasks, rec.task_key, ok)]]
            /\ UNCHANGED <<tasks, solves, deletedKeys>>
      [] rec.op = "edit" ->
            /\ h' = [h EXCEPT ![p] = [rec EXCEPT !.pc = "e_put", !.faulted = @ \/ ~ok]]
            /\ tasks' = put_into_cache(tasks, rec.task_key, rec.task, ok)
            /\ UNCHANGED <<solves, deletedKeys>>
      [] rec.op = "delete" ->
            /\ h' = [h EXCEPT ![p] = [rec EXCEPT !.pc = "d_del", !.faulted = @ \/ ~ok]]
            /\ tasks' = del_from_cache(tasks, rec.task_key, ok)
            /\ deletedKeys' = IF ok THEN deletedKeys \cup {rec.task_key} ELSE deletedKeys
            /\ UNCHANGED solves

\* a lock() that does not wait for the holder
lock_no_wait(p, rec, ok) ==
    /\ mutex' = [locked |-> TRUE, val |-> TRUE]
    /\ lockq' = lockq
    /\ CSEnter(p, rec, ok)

\* self.mutex.lock().await; *val = true
lock(p, rec, ok) ==
    IF ~mutex.locked
    THEN /\ mutex' = [locked |-> TRUE, val |-> TRUE]
         /\ lockq' = lockq
         /\ CSEnter(p, rec, ok)
    ELSE /\ lockq' = Append(lockq, p)
         /\ h' = [h EXCEPT ![p] = [rec EXCEPT !.pc = "lockwait", !.waited = TRUE]]
         /\ UNCHANGED <<mutex, tasks, solves, deletedKeys>>

\* a waiter that was handed the lock resumes
LockGranted(p) ==
    /\ h[p].pc = "locked"
    /\ mutex' = [mutex EXCEPT !.val = TRUE]
    /\ \E ok \in StoreOutcomes : CSEnter(p, h[p], ok)
    /\ UNCHANGED <<lockq, faults>>
    /\ UNCHANGED <<queueVars, readVars, contactVars, sessionVars>>

\* a release that leaves the waiters where they are
unlock_strands(hh) ==
    /\ mutex' = [locked |-> FALSE, val |-> FALSE]
    /\ lockq' = lockq
    /\ h' = hh

\* *val = false; drop(val): the lock passes to the first waiter, if any.
\* hh is h with the releasing task's own record already updated.
unlock(hh) ==
    /\ mutex' = [locked |-> lockq # << >>, val |-> FALSE]
    /\ lockq' = IF lockq = << >> THEN lockq ELSE Tail(lockq)
    /\ h' = IF lockq = << >> THEN hh
            ELSE [hh EXCEPT ![Head(lockq)].pc = "locked"]

(***************************************************************************)
(* try_submit_flag                                                         *)
(***************************************************************************)
\* a scan that leaves out every other key
ScanNext_skips(p, rec, ok) ==
    IF Len(rec.keys) < 2
    THEN h' = [h EXCEPT ![p] = Return([rec EXCEPT !.task_key = ""], "NotAFlag")]
    ELSE h' = [h EXCEPT ![p] = [rec EXCEPT !.pc = "s_scan", !.faulted = @ \/ ~ok,
                    !.task_key = rec.keys[2], !.keys = Tail(Tail(rec.keys)),
                    !.got_task = collect_from_cache(tasks, rec.keys[2], ok)]]

\* next step of the scan over the keys left: GET the first, or NotAFlag
ScanNext(p, rec, ok) ==
    IF rec.keys = << >>
    THEN h' = [h EXCEPT ![p] = Return([rec EXCEPT !.task_key = ""], "NotAFlag")]
    ELSE h' = [h EXCEPT ![p] = [rec EXCEPT !.pc = "s_scan", !.faulted = @ \/ ~ok,
                    !.task_key = Head(rec.keys), !.keys = Tail(rec.keys),
                    !.got_task = collect_from_cache(tasks, Head(rec.keys), ok)]]

\* process_data with no session state: try_submit_flag(user_id, text);
\* get_keys("task:*") is issued
SubmitStart(p) ==
    /\ h[p].pc = "idle"
    /\ \E u \in Users, text \in SubmitTexts, ok \in StoreOutcomes :
         \E order \in get_keys(tasks, ok) :
            h' = [h EXCEPT ![p] = [@ EXCEPT !.pc = "s_keys", !.op = "submit",
                        !.user = u, !.try_flag = to_lowercase(trim(text)),
                        !.keys = order, !.faulted = ~ok]]
    /\ UNCHANGED <<tasks, solves, mutex, lockq, faults, deletedKeys>>
    /\ UNCHANGED <<queueVars, readVars, contactVars, sessionVars>>

\* the key list arrived: the loop issues its first GET
SubmitKeys(p) ==
    /\ h[p].pc = "s_keys"
    /\ \E ok \in StoreOutcomes : ScanNext(p, h[p], ok)
    /\ UNCHANGED <<tasks, solves, mutex, lockq, faults, deletedKeys>>
    /\ UNCHANGED <<queueVars, readVars, contactVars, sessionVars>>

\* a task arrived: on a match take the lock, else go on scanning
SubmitScan(p) ==
    /\ h[p].pc = "s_scan"
    /\ \E ok \in StoreOutcomes :
        IF is_some(h[p].got_task) /\ flag_matches(unwrap(h[p].got_task).flag, h[p].try_flag)
        THEN lock(p, [h[p] EXCEPT !.name = unwrap(h[p].got_task).name], ok)
        ELSE /\ ScanNext(p, h[p], ok)
             /\ UNCHANGED <<tasks, solves, mutex, lockq, deletedKeys>>
    /\ UNCHANGED faults
    /\ UNCHANGED <<queueVars, readVars, contactVars, sessionVars>>

\* an is_solved that looks for the ledger's own key instead of the task's
is_solved_wrong_key(got, task_key) == is_some(got) /\ Contains(unwrap(got), "solve")

is_solved(got, task_key) == is_some(got) /\ Contains(unwrap(got), task_key)

\* is_solved answered: AlreadySolved, or set_solved issues its own GET
SubmitIsSolved(p) ==
    /\ h[p].pc = "s_is_solved"
    /\ IF is_solved(h[p].got_solve, h[p].task_key)
       THEN /\ unlock([h EXCEPT ![p] = Return(@, "AlreadySolved")])
            /\ UNCHANGED <<tasks, solves, deletedKeys>>
       ELSE /\ \E ok \in StoreOutcomes :
                 h' = [h EXCEPT ![p] = [@ EXCEPT !.pc = "s_set_get",
                            !.faulted = @ \/ ~ok,
                            !.got_solve = collect_from_cache(solves, h[p].user, ok)]]
            /\ UNCHANGED <<tasks, solves, mutex, lockq, deletedKeys>>
    /\ UNCHANGED faults
    /\ UNCHANGED <<queueVars, readVars, contactVars, sessionVars>>

\* the ledger set_solved writes back
set_solved(got, task_key) ==
    IF is_some(got) THEN Append(unwrap(got), task_key) ELSE <<task_key>>

\* set_solved's GET answered: push and SET
SubmitSetGet(p) ==
    /\ h[p].pc = "s_set_get"
    /\ \E ok \in StoreOutcomes :
         /\ solves' = put_into_cache(solves, h[p].user,
                                     set_solved(h[p].got_solve, h[p].task_key), ok)
         /\ h' = [h EXCEPT ![p] = [@ EXCEPT !.pc = "s_set_put",
                                            !.faulted = @ \/ ~ok]]
    /\ UNCHANGED <<tasks, mutex, lockq, faults, deletedKeys>>
    /\ UNCHANGED <<queueVars, readVars, contactVars, sessionVars>>

\* a return that keeps the guard while the caller goes on to notify
SubmitSetPut_holds(p) ==
    /\ h[p].pc = "s_set_put"
    /\ h' = [h EXCEPT ![p] = Return(@, "Solved")]
    /\ UNCHANGED <<mutex, lockq>>
    /\ UNCHANGED <<tasks, solves, faults, deletedKeys>>
    /\ UNCHANGED <<queueVars, readVars, contactVars, sessionVars>>

\* the SET answered: release the lock, Solved(task.name)
SubmitSetPut(p) ==
    /\ h[p].pc = "s_set_put"
    /\ unlock([h EXCEPT ![p] = Return(@, "Solved")])
    /\ UNCHANGED <<tasks, solves, faults, deletedKeys>>
    /\ UNCHANGED <<queueVars, readVars, contactVars, sessionVars>>

(***************************************************************************)
(* create_task                                                             *)
(***************************************************************************)
\* a create_task that draws its key and takes the lock before it parses
CreateStart_locks_first(p) ==
    /\ h[p].pc = "idle"
    /\ \E text \in TaskTexts, k \in KeyIds, ok \in StoreOutcomes :
         lock(p, [h[p] EXCEPT !.op = "create", !.task = string_to_task(text).task,
                              !.task_key = k], ok)
    /\ UNCHANGED faults
    /\ UNCHANGED <<queueVars, readVars, contactVars, sessionVars>>

\* process_data in state "create": parse, draw a key, take the lock
CreateStart(p) ==
    /\ h[p].pc = "idle"
    /\ \E text \in TaskTexts, k \in KeyIds, ok \in StoreOutcomes :
         LET parsed == string_to_task(text)
         IN  IF ~parsed.ok
             THEN /\ h' = [h EXCEPT ![p] = Return([@ EXCEPT !.op = "create"], "Err")]
                  /\ UNCHANGED <<tasks, solves, mutex, lockq, deletedKeys>>
             ELSE lock(p, [h[p] EXCEPT !.op = "create", !.task = parsed.task,
                                       !.task_key = k], ok)
    /\ UNCHANGED faults
    /\ UNCHANGED <<queueVars, readVars, contactVars, sessionVars>>

\* a create_task without the collision loop
CreateCheck_no_loop(p) ==
    /\ h[p].pc = "c_check"
    /\ \E ok \in StoreOutcomes :
         /\ tasks' = put_into_cache(tasks, h[p].task_key, h[p].task, ok)
         /\ h' = [h EXCEPT ![p] = [@ EXCEPT !.pc = "c_put",
                    !.faulted = @ \/ ~ok,
                    !.overwrote = h[p].task_key \in DOMAIN tasks]]
    /\ UNCHANGED <<solves, mutex, lockq, faults, deletedKeys>>
    /\ UNCHANGED <<queueVars, readVars, contactVars, sessionVars>>

\* the collision check answered: draw again, or SET the task
CreateCheck(p) ==
    /\ h[p].pc = "c_check"
    /\ \E ok \in StoreOutcomes :
        IF is_some(h[p].got_task)
        THEN /\ \E k \in KeyIds :
                  h' = [h EXCEPT ![p] = [@ EXCEPT !.task_key = k,
                             !.faulted = @ \/ ~ok,
                             !.got_task = collect_from_cache(tasks, k, ok)]]
             /\ UNCHANGED tasks
        ELSE /\ tasks' = put_into_cache(tasks, h[p].task_key, h[p].task, ok)
             /\ h' = [h EXCEPT ![p] = [@ EXCEPT !.pc = "c_put",
                        !.faulted = @ \/ ~ok,
                        !.overwrote = h[p].task_key \in DOMAIN tasks]]
    /\ UNCHANGED <<solves, mutex, lockq, faults, deletedKeys>>
    /\ UNCHANGED <<queueVars, readVars, contactVars, sessionVars>>

\* the SET answered: release the lock, Ok(key)
CreatePut(p) ==
    /\ h[p].pc = "c_put"
    /\ unlock([h EXCEPT ![p] = Return(@, "Ok")])
    /\ UNCHANGED <<tasks, solves, faults, deletedKeys>>
    /\ UNCHANGED <<queueVars, readVars, contactVars, sessionVars>>

(***************************************************************************)
(* edit_task and delete_task, reached through callback_handler             *)
(***************************************************************************)
\* callback_handler: the administrator picked a task; get_task(id) is issued
CallbackStart(p) ==
    /\ h[p].pc = "idle"
    /\ \E id \in KeyIds, state \in {"edit", "delete"}, ok \in StoreOutcomes :
         h' = [h EXCEPT ![p] = [@ EXCEPT !.pc = "cb_get", !.op = state,
                    !.task_key = id,
                    !.got_task = collect_from_cache(tasks, id, ok)]]
    /\ UNCHANGED <<tasks, solves, mutex, lockq, faults, deletedKeys>>
    /\ UNCHANGED <<queueVars, readVars, contactVars, sessionVars>>

\* get_task answered: nothing for a missing task; "delete" deletes it now,
\* "edit" sets the session state edit_<id> and waits for the new text
CallbackGot(p) ==
    /\ h[p].pc = "cb_get"
    /\ IF ~is_some(h[p].got_task)
       THEN /\ h' = [h EXCEPT ![p] = Return(@, "Ok")]
            /\ UNCHANGED <<tasks, solves, mutex, lockq, deletedKeys>>
       ELSE IF h[p].op = "delete"
       THEN \E ok \in StoreOutcomes : lock(p, h[p], ok)
       ELSE /\ h' = [h EXCEPT ![p].pc = "edit_id"]
            /\ UNCHANGED <<tasks, solves, mutex, lockq, deletedKeys>>
    /\ UNCHANGED faults
    /\ UNCHANGED <<queueVars, readVars, contactVars, sessionVars>>

\* process_data in state edit_<id>: edit_task(id, text)
EditStart(p) ==
    /\ h[p].pc = "edit_id"
    /\ \E text \in TaskTexts, ok \in StoreOutcomes :
         LET parsed == string_to_task(text)
         IN  IF ~parsed.ok
             THEN /\ h' = [h EXCEPT ![p] = Return(@, "Err")]
                  /\ UNCHANGED <<tasks, solves, mutex, lockq, deletedKeys>>
             ELSE lock(p, [h[p] EXCEPT !.task = parsed.task], ok)
    /\ UNCHANGED faults
    /\ UNCHANGED <<queueVars, readVars, contactVars, sessionVars>>

\* edit_task's SET answered: release the lock
EditPut(p) ==
    /\ h[p].pc = "e_put"
    /\ unlock([h EXCEPT ![p] = Return(@, "Ok")])
    /\ UNCHANGED <<tasks, solves, faults, deletedKeys>>
    /\ UNCHANGED <<queueVars, readVars, contactVars, sessionVars>>

\* delete_task's DEL answered: release the lock
DeleteDel(p) ==
    /\ h[p].pc = "d_del"
    /\ unlock([h EXCEPT ![p] = Return(@, "Ok")])
    /\ UNCHANGED <<tasks, solves, faults, deletedKeys>>
    /\ UNCHANGED <<queueVars, readVars, contactVars, sessionVars>>

(***************************************************************************)
(* The read operations: get_score, list_tasks, get_scoreboard.             *)
(***************************************************************************)
\* Config.test_group and Config.admin_group
test_group == {2}
admin_group == {3}

is_test_user(user_id) == \E x \in test_group : x = user_id

is_admin(user_id) == \E x \in admin_group : x = user_id

\* the participants of the read operations; 0 is list_tasks' "everything"
Participants == {1, 2, 3}
Everything == 0

\* u64::MAX, the "no rank" value of get_score (2^64 - 1 in the program; the
\* largest integer of the checker stands for it, far above every rank)
U64_MAX == 2147483647

\* the characters of the model in byte order
Alphabet ==
    <<"\t", "\n", "\r", " ", ",", ":", "A", "B", "F", "G", "H",
      "a", "b", "d", "e", "f", "g", "h", "i", "n", "x">>

CharRank(ch) == CHOOSE i \in 1..Len(Alphabet) : Alphabet[i] = ch

\* str::cmp(a, b) = Less: lexicographic by bytes
RECURSIVE str_less(_, _)
str_less(a, b) ==
    IF b = << >> THEN FALSE
    ELSE IF a = << >> THEN TRUE
    ELSE IF Head(a) = Head(b) THEN str_less(Tail(a), Tail(b))
    ELSE CharRank(Head(a)) < CharRank(Head(b))

\* FillId for Task: the id is the part of the key after "task:"
fill_id_task(task, key) ==
    [id |-> key, name |-> task.name, hidden |-> task.hidden]

\* FillId for Vas3kUser: telegram_id is the part of the key after "user:"
fill_id_user(profile, key) == [profile EXCEPT !.telegram_id = key]

\* impl From<Solve> for u64: the ledger's length; 0 for None
score_of(got) == IF is_some(got) THEN Len(unwrap(got)) ELSE 0

\* a comparison that sorts by ascending score
cmp_desc_inverted(x, y) == x.score < y.score

\* |x, y| y.1.cmp(&x.1) = Less: x goes before y when its score is higher
cmp_desc(x, y) == x.score > y.score

\* slice::sort_by is stable: an element goes behind everything that is not
\* ordered after it
RECURSIVE InsertByScore(_, _)
InsertByScore(sorted, x) ==
    IF sorted = << >> THEN <<x>>
    ELSE IF cmp_desc(x, Head(sorted)) THEN <<x>> \o sorted
    ELSE <<Head(sorted)>> \o InsertByScore(Tail(sorted), x)

RECURSIVE sort_by_score(_)
sort_by_score(data) ==
    IF data = << >> THEN << >>
    ELSE InsertByScore(sort_by_score(SubSeq(data, 1, Len(data) - 1)),
                       data[Len(data)])

\* a comparison that sorts by descending name
cmp_name_inverted(x, y) == str_less(y.name, x.name)

\* |x, y| x.name.cmp(&y.name) = Less
cmp_name(x, y) == str_less(x.name, y.name)

RECURSIVE InsertByName(_, _)
InsertByName(sorted, x) ==
    IF sorted = << >> THEN <<x>>
    ELSE IF cmp_name(x, Head(sorted)) THEN <<x>> \o sorted
    ELSE <<Head(sorted)>> \o InsertByName(Tail(sorted), x)

RECURSIVE sort_by_name(_)
sort_by_name(ts) ==
    IF ts = << >> THEN << >>
    ELSE InsertByName(sort_by_name(SubSeq(ts, 1, Len(ts) - 1)), ts[Len(ts)])

\* the reader task before its call
IdleReader ==
    [pc |-> "idle", op |-> "none", user |-> 0, keys |-> << >>, ukey |-> 0,
     tkey |-> "", data |-> << >>, got |-> None, rank |-> 0, score |-> 0,
     snap |-> [u \in {} |-> << >>]]

\* a finished read: what it was and what it returned
ReadReturn(rec, rank, score, data) ==
    [IdleReader EXCEPT !.pc = "done", !.op = rec.op, !.user = rec.user,
                       !.rank = rank, !.score = score, !.data = data,
                       !.snap = rec.snap]

\* a hidden test that forgets the administrators
hidden_test_only(user_id) == is_test_user(user_id)

\* let hidden = self.is_test_user(user_id) || self.is_admin(user_id)
hidden_user(user_id) == is_test_user(user_id) \/ is_admin(user_id)

\* the end of get_score: sort, find the participant's place, hide it
ScoreFinish(rec) ==
    LET size == Len(rec.data)
        data == sort_by_score(rec.data)
        found == {i \in 1..size : data[i].key = rec.user}
        place == IF found = {} THEN size + 1
                 ELSE CHOOSE i \in found : \A j \in found : i <= j
        score == IF found = {} THEN 0 ELSE data[place].score
    IN  IF hidden_user(rec.user)
        THEN ReadReturn(rec, U64_MAX, score, data)
        ELSE ReadReturn(rec, place, score, data)

\* for key in get_keys("solve:*"): GET the next ledger, or finish
ScoreNext(rec, ok) ==
    IF rec.keys = << >>
    THEN rd' = ScoreFinish(rec)
    ELSE rd' = [rec EXCEPT !.pc = "g_get", !.ukey = Head(rec.keys),
                    !.keys = Tail(rec.keys),
                    !.data = Append(rec.data,
                        [key |-> Head(rec.keys),
                         score |-> score_of(collect_from_cache(solves, Head(rec.keys), ok))])]

\* process_command UserScore: get_score(user_id); KEYS solve:* is issued
ScoreStart ==
    /\ rd.pc = "idle"
    /\ \E u \in Participants, ok \in StoreOutcomes :
         \E order \in get_keys(solves, ok) :
            rd' = [rd EXCEPT !.pc = "g_keys", !.op = "score", !.user = u,
                             !.keys = order, !.snap = solves]
    /\ UNCHANGED <<profiles, apiVars, faults, queueVars, contactVars, sessionVars>>

\* the key list, or a ledger, arrived
ScoreStep ==
    /\ rd.pc \in {"g_keys", "g_get"}
    /\ \E ok \in StoreOutcomes : ScoreNext(rd, ok)
    /\ UNCHANGED <<profiles, apiVars, faults, queueVars, contactVars, sessionVars>>

\* a listing that shows hidden tasks too
list_keeps_hidden(task) == TRUE

\* if !task.hidden { tasks.push(task) }
list_keeps(task) == ~task.hidden

\* for task_key in get_keys("task:*"): is_solved's GET, or the task's GET for
\* user 0; after the last key the sort
ListNext(rec, ok) ==
    IF rec.keys = << >>
    THEN rd' = ReadReturn(rec, 0, 0, sort_by_name(rec.data))
    ELSE IF rec.user = Everything
    THEN rd' = [rec EXCEPT !.pc = "l_task", !.tkey = Head(rec.keys),
                    !.keys = Tail(rec.keys),
                    !.got = collect_from_cache(tasks, Head(rec.keys), ok)]
    ELSE rd' = [rec EXCEPT !.pc = "l_solved", !.tkey = Head(rec.keys),
                    !.keys = Tail(rec.keys),
                    !.got = collect_from_cache(solves, rec.user, ok)]

\* process_command UserTasks / AdminEdit / AdminDelete: list_tasks(user_id)
ListStart ==
    /\ rd.pc = "idle"
    /\ \E u \in Participants \cup {Everything}, ok \in StoreOutcomes :
         \E order \in get_keys(tasks, ok) :
            rd' = [rd EXCEPT !.pc = "l_keys", !.op = "list", !.user = u,
                             !.keys = order, !.snap = solves]
    /\ UNCHANGED <<profiles, apiVars, faults, queueVars, contactVars, sessionVars>>

\* the key list arrived
ListKeys ==
    /\ rd.pc = "l_keys"
    /\ \E ok \in StoreOutcomes : ListNext(rd, ok)
    /\ UNCHANGED <<profiles, apiVars, faults, queueVars, contactVars, sessionVars>>

\* is_solved answered: skip a solved task, GET an unsolved one
ListSolved ==
    /\ rd.pc = "l_solved"
    /\ \E ok \in StoreOutcomes :
        IF is_solved(rd.got, rd.tkey)
        THEN ListNext([rd EXCEPT !.got = None], ok)
        ELSE rd' = [rd EXCEPT !.pc = "l_task",
                        !.got = collect_from_cache(tasks, rd.tkey, ok)]
    /\ UNCHANGED <<profiles, apiVars, faults, queueVars, contactVars, sessionVars>>

\* the task arrived: keep it unless it is hidden
ListTask ==
    /\ rd.pc = "l_task"
    /\ \E ok \in StoreOutcomes :
        LET kept == IF is_some(rd.got) /\ list_keeps(unwrap(rd.got))
                    THEN Append(rd.data, fill_id_task(unwrap(rd.got), rd.tkey))
                    ELSE rd.data
        IN  ListNext([rd EXCEPT !.data = kept, !.got = None], ok)
    /\ UNCHANGED <<profiles, apiVars, faults, queueVars, contactVars, sessionVars>>

\* for key in get_keys("user:*"): GET the next profile; after the last the sort
BoardNext(rec, ok) ==
    IF rec.keys = << >>
    THEN rd' = ReadReturn(rec, 0, 0, sort_by_score(rec.data))
    ELSE rd' = [rec EXCEPT !.pc = "b_user", !.ukey = Head(rec.keys),
                    !.keys = Tail(rec.keys),
                    !.got = collect_from_cache(profiles, Head(rec.keys), ok)]

\* process_command AdminScoreboard: get_scoreboard(); KEYS user:* is issued
BoardStart ==
    /\ rd.pc = "idle"
    /\ \E ok \in StoreOutcomes :
         \E order \in get_keys(profiles, ok) :
            rd' = [rd EXCEPT !.pc = "b_keys", !.op = "board",
                             !.keys = order, !.snap = solves]
    /\ UNCHANGED <<profiles, apiVars, faults, queueVars, contactVars, sessionVars>>

\* the key list arrived
BoardKeys ==
    /\ rd.pc = "b_keys"
    /\ \E ok \in StoreOutcomes : BoardNext(rd, ok)
    /\ UNCHANGED <<profiles, apiVars, faults, queueVars, contactVars, sessionVars>>

\* the profile arrived: skip a missing one, else GET its ledger
BoardUser ==
    /\ rd.pc = "b_user"
    /\ \E ok \in StoreOutcomes :
        IF ~is_some(rd.got)
        THEN BoardNext(rd, ok)
        ELSE rd' = [rd EXCEPT !.pc = "b_solve",
                        !.got = Some(fill_id_user(unwrap(rd.got), rd.ukey)),
                        !.score = score_of(collect_from_cache(solves, rd.ukey, ok))]
    /\ UNCHANGED <<profiles, apiVars, faults, queueVars, contactVars, sessionVars>>

\* the ledger arrived: push (user, 0) for a test user, else (user, score)
BoardSolve ==
    /\ rd.pc = "b_solve"
    /\ \E ok \in StoreOutcomes :
        LET user == unwrap(rd.got)
            shown == IF is_test_user(user.telegram_id) THEN 0 ELSE rd.score
        IN  BoardNext([rd EXCEPT !.got = None, !.score = 0,
                           !.data = Append(rd.data,
                               [key |-> user.telegram_id, score |-> shown])], ok)
    /\ UNCHANGED <<profiles, apiVars, faults, queueVars, contactVars, sessionVars>>

(***************************************************************************)
(* The delivery queue: MessageSender (sender.rs).                          *)
(***************************************************************************)
Min(a, b) == IF a < b THEN a ELSE b
Max(a, b) == IF a > b THEN a ELSE b

NoMsg == [id |-> 0, dest |-> 0]

\* the consumer waiting in self.recv.recv()
Receiving == [pc |-> "recv", msg |-> NoMsg, timer |-> 0]

\* self holds both ends of the channel for as long as start() runs
\* (sender.rs:52-53): the receiver is never closed, send() never returns Err
ReceiverClosed == FALSE

\* a channel that takes a notification whatever it holds
HasPermit_unbounded(ch) == TRUE

\* a permit is available: the semaphore hands a freed permit to the first
\* waiting send() at once, so the waiters' permits are taken
HasPermit(ch) == Len(ch) + Len(sendq) < cap

\* the consumer and the replenisher have been spawned, nothing is enqueued
InitSender ==
    /\ chan = << >>
    /\ sendq = << >>
    /\ c = Receiving
    /\ counter = LIMIT_RATE_PER_ALL
    /\ replTimer = REPLENISH_MS
    /\ timeouts = [d \in {} |-> 0]
    /\ nextId = 1
    /\ accepted = {}
    /\ invocations = [i \in 1..MaxMsgs |-> 0]
    /\ failures = [i \in 1..MaxMsgs |-> 0]
    /\ delivered = << >>
    /\ deferred = {}
    /\ sentSinceRepl = 0
    /\ deferredSinceRepl = 0
    /\ firstToLast = [d \in Dests |-> 0]

\* channel(ChanCap)
InitQueue == cap = ChanCap /\ InitSender

\* a handler enqueues a notification: Api::send_message, send_notification.
\* On a full channel the call waits in line.
Produce ==
    /\ nextId <= MaxMsgs
    /\ \E d \in Dests :
        LET m == [id |-> nextId, dest |-> d]
        IN  IF HasPermit(chan)
            THEN /\ chan' = Append(chan, m)
                 /\ accepted' = accepted \cup {m.id}
                 /\ sendq' = sendq
            ELSE /\ sendq' = Append(sendq, [who |-> "producer", msg |-> m])
                 /\ UNCHANGED <<chan, accepted>>
    /\ nextId' = nextId + 1
    /\ UNCHANGED <<c, counter, replTimer, timeouts, invocations, failures,
                   delivered, deferred, sentSinceRepl, deferredSinceRepl, firstToLast>>
    /\ UNCHANGED <<apiVars, faults, readVars, contactVars, sessionVars, cap>>

\* a freed slot goes to the first waiting send(), which completes
Grant ==
    /\ sendq # << >>
    /\ Len(chan) < cap
    /\ chan' = Append(chan, Head(sendq).msg)
    /\ sendq' = Tail(sendq)
    /\ accepted' = accepted \cup {Head(sendq).msg.id}
    /\ c' = IF Head(sendq).who = "consumer" THEN Receiving ELSE c
    /\ UNCHANGED <<counter, replTimer, timeouts, nextId, invocations, failures,
                   delivered, deferred, sentSinceRepl, deferredSinceRepl, firstToLast>>
    /\ UNCHANGED <<apiVars, faults, readVars, contactVars, sessionVars, cap>>

\* a quota check that lets one more through
quota_exhausted_late(left) == left < 0

\* if left < 1
quota_exhausted(left) == left < 1

\* a spacing check with the comparison turned round
too_soon_inverted(elapsed) == elapsed > LIMIT_RATE_PER_CHAT

\* if elapsed.as_millis() < LIMIT_RATE_PER_CHAT
too_soon(elapsed) == elapsed < LIMIT_RATE_PER_CHAT

\* self.send_message(message).await is started
Invoke(m, ch) ==
    /\ c' = [pc |-> "transport", msg |-> m, timer |-> 0]
    /\ invocations' = [invocations EXCEPT ![m.id] = @ + 1]
    /\ sentSinceRepl' = sentSinceRepl + 1
    /\ chan' = ch
    /\ UNCHANGED <<sendq, deferred, deferredSinceRepl>>

\* "push_back": self.send.send(message).await of a notification that is too soon
PushBack(m, ch) ==
    /\ deferred' = deferred \cup {m.id}
    /\ deferredSinceRepl' = deferredSinceRepl + 1
    /\ UNCHANGED <<invocations, sentSinceRepl>>
    /\ IF ReceiverClosed
       THEN \* Err(e): sleep out the rest of the window, then send e.0
            /\ c' = [pc |-> "spacing_sleep", msg |-> m,
                     timer |-> LIMIT_RATE_PER_CHAT - timeouts[m.dest]]
            /\ chan' = ch
            /\ sendq' = sendq
       ELSE IF HasPermit(ch)
       THEN \* Ok: continue
            /\ chan' = Append(ch, m)
            /\ c' = Receiving
            /\ sendq' = sendq
       ELSE \* no slot: the consumer waits in line
            /\ sendq' = Append(sendq, [who |-> "consumer", msg |-> m])
            /\ c' = [pc |-> "push_back", msg |-> m, timer |-> 0]
            /\ chan' = ch

\* the spacing check of the destination's last-sent time
Dispatch(m, ch) ==
    IF m.dest \in DOMAIN timeouts /\ too_soon(timeouts[m.dest])
    THEN PushBack(m, ch)
    ELSE Invoke(m, ch)

\* a quota that is charged after the spacing check, for Transport calls only
Acquire_spacing_first(m, ch) ==
    IF quota_exhausted(counter)
    THEN /\ c' = [pc |-> "quota_sleep", msg |-> m, timer |-> POLL_MS]
         /\ chan' = ch
         /\ UNCHANGED <<counter, sendq, invocations, sentSinceRepl, deferredSinceRepl, deferred>>
    ELSE /\ counter' = IF m.dest \in DOMAIN timeouts /\ too_soon(timeouts[m.dest])
                       THEN counter ELSE counter - 1
         /\ Dispatch(m, ch)

\* the global rate limit: take a unit, or sleep 100 ms and look again
Acquire(m, ch) ==
    IF quota_exhausted(counter)
    THEN /\ c' = [pc |-> "quota_sleep", msg |-> m, timer |-> POLL_MS]
         /\ chan' = ch
         /\ UNCHANGED <<counter, sendq, invocations, sentSinceRepl, deferredSinceRepl, deferred>>
    ELSE /\ counter' = counter - 1
         /\ Dispatch(m, ch)

\* a recv() that takes the newest notification of the channel
ConsumerRecv_newest ==
    /\ c.pc = "recv"
    /\ chan # << >>
    /\ Acquire(chan[Len(chan)], SubSeq(chan, 1, Len(chan) - 1))
    /\ UNCHANGED <<replTimer, timeouts, nextId, accepted, failures, delivered,
                   firstToLast>>
    /\ UNCHANGED <<apiVars, faults, readVars, contactVars, sessionVars, cap>>

\* while let Some(message) = self.recv.recv().await
ConsumerRecv ==
    /\ c.pc = "recv"
    /\ chan # << >>
    /\ Acquire(Head(chan), Tail(chan))
    /\ UNCHANGED <<replTimer, timeouts, nextId, accepted, failures, delivered,
                   firstToLast>>
    /\ UNCHANGED <<apiVars, faults, readVars, contactVars, sessionVars, cap>>

\* a sleep of the consumer is over
ConsumerWake ==
    /\ c.pc \in {"quota_sleep", "spacing_sleep"}
    /\ c.timer = 0
    /\ IF c.pc = "quota_sleep"
       THEN Acquire(c.msg, chan)
       ELSE Invoke(c.msg, chan) /\ UNCHANGED counter
    /\ UNCHANGED <<replTimer, timeouts, nextId, accepted, failures, delivered,
                   firstToLast>>
    /\ UNCHANGED <<apiVars, faults, readVars, contactVars, sessionVars, cap>>

\* a resend that drops the notification
Resend_drop(m) ==
    /\ c' = Receiving
    /\ UNCHANGED <<chan, sendq>>

\* "resend": self.send.send(message).await after a Transport error
Resend(m) ==
    IF ReceiverClosed
    THEN \* Err(e): logged, the notification is gone
         /\ c' = Receiving
         /\ UNCHANGED <<chan, sendq>>
    ELSE IF HasPermit(chan)
    THEN /\ chan' = Append(chan, m)
         /\ c' = Receiving
         /\ sendq' = sendq
    ELSE /\ sendq' = Append(sendq, [who |-> "consumer", msg |-> m])
         /\ c' = [pc |-> "resend", msg |-> m, timer |-> 0]
         /\ chan' = chan

\* a success branch that also re-enqueues the notification
TransportOk_requeue ==
    /\ c.pc = "transport"
    /\ delivered' = Append(delivered, c.msg)
    /\ firstToLast' =
         [firstToLast EXCEPT ![c.msg.dest] =
            IF c.msg.dest \in DOMAIN timeouts THEN @ + timeouts[c.msg.dest] ELSE 0]
    /\ timeouts' = [d \in DOMAIN timeouts \cup {c.msg.dest} |->
                      IF d = c.msg.dest THEN 0 ELSE timeouts[d]]
    /\ Resend(c.msg)
    /\ UNCHANGED <<counter, replTimer, nextId, accepted, invocations,
                   failures, deferred, sentSinceRepl, deferredSinceRepl>>
    /\ UNCHANGED <<apiVars, faults, readVars, contactVars, sessionVars, cap>>

\* send_message returned Ok: timeouts.insert(id, SystemTime::now())
TransportOk ==
    /\ c.pc = "transport"
    /\ delivered' = Append(delivered, c.msg)
    /\ firstToLast' =
         [firstToLast EXCEPT ![c.msg.dest] =
            IF c.msg.dest \in DOMAIN timeouts THEN @ + timeouts[c.msg.dest] ELSE 0]
    /\ timeouts' = [d \in DOMAIN timeouts \cup {c.msg.dest} |->
                      IF d = c.msg.dest THEN 0 ELSE timeouts[d]]
    /\ c' = Receiving
    /\ UNCHANGED <<chan, sendq, counter, replTimer, nextId, accepted, invocations,
                   failures, deferred, sentSinceRepl, deferredSinceRepl>>
    /\ UNCHANGED <<apiVars, faults, readVars, contactVars, sessionVars, cap>>

\* an error branch that records the time of the call as well
TransportErr_stamps ==
    /\ c.pc = "transport"
    /\ failures[c.msg.id] < MaxFail
    /\ failures' = [failures EXCEPT ![c.msg.id] = @ + 1]
    /\ timeouts' = [d \in DOMAIN timeouts \cup {c.msg.dest} |->
                      IF d = c.msg.dest THEN 0 ELSE timeouts[d]]
    /\ Resend(c.msg)
    /\ UNCHANGED <<counter, replTimer, nextId, accepted, invocations,
                   delivered, deferred, sentSinceRepl, deferredSinceRepl, firstToLast>>
    /\ UNCHANGED <<apiVars, faults, readVars, contactVars, sessionVars, cap>>

\* send_message returned Err((e, message))
TransportErr ==
    /\ c.pc = "transport"
    /\ failures[c.msg.id] < MaxFail
    /\ failures' = [failures EXCEPT ![c.msg.id] = @ + 1]
    /\ Resend(c.msg)
    /\ UNCHANGED <<counter, replTimer, timeouts, nextId, accepted, invocations,
                   delivered, deferred, sentSinceRepl, deferredSinceRepl, firstToLast>>
    /\ UNCHANGED <<apiVars, faults, readVars, contactVars, sessionVars, cap>>

\* the replenisher: sleep(1 s); counter.store(LIMIT_RATE_PER_ALL)
Replenish ==
    /\ replTimer = 0
    /\ counter' = LIMIT_RATE_PER_ALL
    /\ replTimer' = REPLENISH_MS
    /\ sentSinceRepl' = 0
    /\ deferredSinceRepl' = 0
    /\ UNCHANGED <<chan, sendq, c, timeouts, nextId, accepted, invocations,
                   failures, delivered, deferred, firstToLast>>
    /\ UNCHANGED <<apiVars, faults, readVars, contactVars, sessionVars, cap>>

\* time passes
Tick ==
    /\ timeouts' = [d \in DOMAIN timeouts |->
                      Min(timeouts[d] + TickMs, LIMIT_RATE_PER_CHAT)]
    /\ c' = [c EXCEPT !.timer = Max(0, @ - TickMs)]
    /\ replTimer' = Max(0, replTimer - TickMs)
    /\ UNCHANGED <<chan, sendq, counter, nextId, accepted, invocations, failures,
                   delivered, deferred, sentSinceRepl, deferredSinceRepl, firstToLast>>
    /\ UNCHANGED <<apiVars, faults, readVars, contactVars, sessionVars, cap>>

(***************************************************************************)
(* The contact buffer: append_to_contact and retrieve_and_erase_contact,   *)
(* called by process_data in a "contact" or "message" session. The         *)
(* dispatcher handles the updates of one chat one after the other.         *)
(***************************************************************************)
\* what a participant writes in a session
ContactTexts == { <<"a">>, <<"b", "c">> }

IdleContact ==
    [pc |-> "idle", op |-> "none", user |-> 0, text |-> << >>, got |-> None,
     ret |-> << >>, expect |-> << >>, n |-> 0]

InitContact ==
    /\ contacts = [u \in {} |-> << >>]
    /\ appended = [u \in Users |-> << >>]
    /\ ct = IdleContact

\* the message append_to_contact stores: old + '\n' + text, or text alone
append_message(got, text) ==
    IF is_some(got) THEN unwrap(got) \o <<"\n">> \o text ELSE text

\* append_to_contact(user_id, text): GET contact:<user> is issued
AppendStart ==
    /\ ct.pc \in {"idle", "done"}
    /\ ct.n < MaxOps
    /\ \E u \in Users, text \in ContactTexts, ok \in StoreOutcomes :
         ct' = [IdleContact EXCEPT !.pc = "a_get", !.op = "append", !.user = u,
                    !.text = text, !.n = ct.n + 1,
                    !.got = collect_from_cache(contacts, u, ok)]
    /\ UNCHANGED <<contacts, appended>>
    /\ UNCHANGED <<apiVars, faults, queueVars, readVars, sessionVars>>

\* the buffer arrived: SET contact:<user>
AppendPut ==
    /\ ct.pc = "a_get"
    /\ \E ok \in StoreOutcomes :
         contacts' = put_into_cache(contacts, ct.user,
                                    append_message(ct.got, ct.text), ok)
    /\ appended' = [appended EXCEPT ![ct.user] = Append(@, ct.text)]
    /\ ct' = [ct EXCEPT !.pc = "put"]
    /\ UNCHANGED <<apiVars, faults, queueVars, readVars, sessionVars>>

\* retrieve_and_erase_contact(user_id): GET contact:<user> is issued
FlushStart ==
    /\ ct.pc \in {"idle", "done"}
    /\ ct.n < MaxOps
    /\ \E u \in Users, ok \in StoreOutcomes :
         ct' = [IdleContact EXCEPT !.pc = "f_get", !.op = "flush", !.user = u,
                    !.n = ct.n + 1, !.expect = appended[u],
                    !.got = collect_from_cache(contacts, u, ok)]
    /\ UNCHANGED <<contacts, appended>>
    /\ UNCHANGED <<apiVars, faults, queueVars, readVars, sessionVars>>

\* the buffer arrived: unwrap_or_default, SET contact:<user> to String::new()
FlushPut ==
    /\ ct.pc = "f_get"
    /\ \E ok \in StoreOutcomes :
         contacts' = put_into_cache(contacts, ct.user, << >>, ok)
    /\ appended' = [appended EXCEPT ![ct.user] = << >>]
    /\ ct' = [ct EXCEPT !.pc = "put",
                        !.ret = IF is_some(ct.got) THEN unwrap(ct.got) ELSE << >>]
    /\ UNCHANGED <<apiVars, faults, queueVars, readVars, sessionVars>>

\* the SET answered: the call returns
ContactReturn ==
    /\ ct.pc = "put"
    /\ ct' = [ct EXCEPT !.pc = "done"]
    /\ UNCHANGED <<contacts, appended>>
    /\ UNCHANGED <<apiVars, faults, queueVars, readVars, sessionVars>>

NextContact ==
    \/ AppendStart
    \/ AppendPut
    \/ FlushStart
    \/ FlushPut
    \/ ContactReturn

(***************************************************************************)
(* Sessions: answer_messages, process_command, process_data and            *)
(* callback_handler (main.rs) over the user_state:<id> keys. The           *)
(* dispatcher handles the updates of one chat one after the other and the  *)
(* updates of different chats concurrently; one participant can write in   *)
(* more than one chat. filter_users only drops messages.                   *)
(***************************************************************************)
\* two chats: their updates are handled concurrently
Chats == {1, 2}

\* who writes to the bot: a participant outside the admin group and an
\* administrator
Senders == {1, 3}

S_create == <<"c", "r", "e", "a", "t", "e">>
S_edit == <<"e", "d", "i", "t">>
S_delete == <<"d", "e", "l", "e", "t", "e">>
S_message == <<"m", "e", "s", "s", "a", "g", "e">>
S_contact == <<"c", "o", "n", "t", "a", "c", "t">>

\* the texts of the messages: commands, the end of a session, plain text
SessionTexts ==
    { <<"/">> \o S_create, <<"/">> \o S_edit, <<"/">> \o S_delete,
      <<"/">> \o S_message,
      <<"/">> \o S_contact \o <<"_">> \o S_edit,
      <<"/">> \o S_contact \o <<"_">> \o S_edit \o <<"_", "a", "1">>,
      <<".">>, <<"x">> }

\* the identifier of a task as the text of a button
KeyText ==
    [k \in KeyIds |-> CASE k = "a1" -> <<"a", "1">>
                        [] k = "b2" -> <<"b", "2">>
                        [] OTHER -> <<"c", "3">>]

\* query.data of a callback query
CallbackData == {None, Some(KeyText["a1"]), Some(KeyText["b2"])}

IdleUpdate ==
    [pc |-> "idle", kind |-> "none", user |-> 0, text |-> << >>, data |-> None,
     state |-> None, via |-> "none"]

InitSession ==
    /\ user_state = [u \in {} |-> << >>]
    /\ upd = [t \in Chats |-> IdleUpdate]
    /\ updates = 0
    /\ invoked = {}

\* get_user_state: the stored string, None when absent or empty
get_user_state(user_id, ok) ==
    LET got == collect_from_cache(user_state, user_id, ok)
    IN  IF is_some(got) /\ unwrap(got) # << >> THEN got ELSE None

\* BotCommands::from(&str); the commands that write no state are "Other"
BotCommands_from(value) ==
    IF starts_with(value, <<"/">> \o S_contact)
    THEN LET parts == split(value, "_")
         IN  IF Len(parts) = 2
             THEN [cmd |-> "UserContact", arg |-> Some(trim(parts[2]))]
             ELSE [cmd |-> "UserContact", arg |-> None]
    ELSE [cmd |-> CASE value = <<"/">> \o S_create -> "AdminCreate"
                    [] value = <<"/">> \o S_delete -> "AdminDelete"
                    [] value = <<"/">> \o S_edit -> "AdminEdit"
                    [] value = <<"/">> \o S_message -> "AdminMessageAll"
                    [] OTHER -> "Other",
          arg |-> None]

\* an AdminCreate that does not ask is_admin
command_state_open(user_id, command) ==
    CASE command.cmd = "AdminCreate" -> Some(S_create)
      [] command.cmd = "AdminDelete" ->
            IF is_admin(user_id) THEN Some(S_delete) ELSE None
      [] command.cmd = "AdminEdit" ->
            IF is_admin(user_id) THEN Some(S_edit) ELSE None
      [] command.cmd = "AdminMessageAll" ->
            IF is_admin(user_id) THEN Some(S_message) ELSE None
      [] command.cmd = "UserContact" ->
            Some(IF is_some(command.arg)
                 THEN S_contact \o <<"_">> \o unwrap(command.arg)
                 ELSE S_contact)
      [] OTHER -> None

\* process_command: the state it stores for the command, if any
command_state(user_id, command) ==
    CASE command.cmd = "AdminCreate" ->
            IF is_admin(user_id) THEN Some(S_create) ELSE None
      [] command.cmd = "AdminDelete" ->
            IF is_admin(user_id) THEN Some(S_delete) ELSE None
      [] command.cmd = "AdminEdit" ->
            IF is_admin(user_id) THEN Some(S_edit) ELSE None
      [] command.cmd = "AdminMessageAll" ->
            IF is_admin(user_id) THEN Some(S_message) ELSE None
      [] command.cmd = "UserContact" ->
            Some(IF is_some(command.arg)
                 THEN S_contact \o <<"_">> \o unwrap(command.arg)
                 ELSE S_contact)
      [] OTHER -> None

\* process_data with a session: the state it stores and the mutator it calls
data_effect(state, text) ==
    IF starts_with(state, S_contact)
    THEN [set |-> IF text = <<".">> THEN Some(<< >>) ELSE None, call |-> "none"]
    ELSE IF state = S_create
    THEN [set |-> Some(<< >>), call |-> "create_task"]
    ELSE IF state = S_message
    THEN [set |-> IF text = <<".">> THEN Some(<< >>) ELSE None, call |-> "none"]
    ELSE IF starts_with(state, S_edit \o <<"_">>)
    THEN [set |-> Some(<< >>), call |-> "edit_task"]
    ELSE [set |-> Some(<< >>), call |-> "none"]

\* get_task(&id) of callback_handler: the task stored under the identifier
task_stored(id) == \E k \in DOMAIN tasks : KeyText[k] = id

\* answer_messages: a text message arrives, get_user_state is issued
MessageStart(t) ==
    /\ upd[t].pc \in {"idle", "done"}
    /\ updates < MaxUpdates
    /\ \E u \in Senders, text \in SessionTexts, ok \in StoreOutcomes :
         upd' = [upd EXCEPT ![t] =
                    [IdleUpdate EXCEPT !.pc = "am_state", !.kind = "message",
                                       !.user = u, !.text = text,
                                       !.state = get_user_state(u, ok)]]
    /\ updates' = updates + 1
    /\ UNCHANGED <<user_state, invoked>>
    /\ UNCHANGED <<apiVars, faults, queueVars, readVars, contactVars>>

\* no session and the text starts with "/": process_command
MessageCommand(t) ==
    /\ upd[t].pc = "am_state"
    /\ ~is_some(upd[t].state)
    /\ starts_with(upd[t].text, <<"/">>)
    /\ LET set == command_state(upd[t].user, BotCommands_from(upd[t].text))
       IN  \E ok \in StoreOutcomes :
             user_state' = IF is_some(set)
                           THEN put_into_cache(user_state, upd[t].user,
                                               unwrap(set), ok)
                           ELSE user_state
    /\ upd' = [upd EXCEPT ![t].pc = "done", ![t].via = "command"]
    /\ UNCHANGED <<updates, invoked>>
    /\ UNCHANGED <<apiVars, faults, queueVars, readVars, contactVars>>

\* a session, or a text without "/": process_data issues get_user_state
MessageData(t) ==
    /\ upd[t].pc = "am_state"
    /\ is_some(upd[t].state) \/ ~starts_with(upd[t].text, <<"/">>)
    /\ \E ok \in StoreOutcomes :
         upd' = [upd EXCEPT ![t].pc = "pd_state",
                            ![t].state = get_user_state(upd[t].user, ok)]
    /\ UNCHANGED <<user_state, updates, invoked>>
    /\ UNCHANGED <<apiVars, faults, queueVars, readVars, contactVars>>

\* process_data: the branch of the state that arrived
ProcessData(t) ==
    /\ upd[t].pc = "pd_state"
    /\ LET eff == IF is_some(upd[t].state)
                  THEN data_effect(unwrap(upd[t].state), upd[t].text)
                  ELSE [set |-> None, call |-> "none"]
       IN  /\ \E ok \in StoreOutcomes :
                user_state' = IF is_some(eff.set)
                              THEN put_into_cache(user_state, upd[t].user,
                                                  unwrap(eff.set), ok)
                              ELSE user_state
           /\ invoked' = IF eff.call = "none" THEN invoked
                         ELSE invoked \cup {<<upd[t].user, eff.call>>}
    /\ upd' = [upd EXCEPT ![t].pc = "done", ![t].via = "data", ![t].state = None]
    /\ UNCHANGED updates
    /\ UNCHANGED <<apiVars, faults, queueVars, readVars, contactVars>>

\* callback_handler: a callback query arrives, get_user_state is issued
QueryStart(t) ==
    /\ upd[t].pc \in {"idle", "done"}
    /\ updates < MaxUpdates
    /\ \E u \in Senders, data \in CallbackData, ok \in StoreOutcomes :
         upd' = [upd EXCEPT ![t] =
                    [IdleUpdate EXCEPT !.pc = "cq_state", !.kind = "callback",
                                       !.user = u, !.data = data,
                                       !.state = get_user_state(u, ok)]]
    /\ updates' = updates + 1
    /\ UNCHANGED <<user_state, invoked>>
    /\ UNCHANGED <<apiVars, faults, queueVars, readVars, contactVars>>

\* the state arrived: set_user_state(user_id, "")
QueryClear(t) ==
    /\ upd[t].pc = "cq_state"
    /\ \E ok \in StoreOutcomes :
         user_state' = put_into_cache(user_state, upd[t].user, << >>, ok)
    /\ upd' = [upd EXCEPT ![t].pc = "cq_clear"]
    /\ UNCHANGED <<updates, invoked>>
    /\ UNCHANGED <<apiVars, faults, queueVars, readVars, contactVars>>

\* the rest of callback_handler: "edit" opens edit_<id>, "delete" deletes
QueryAct(t) ==
    /\ upd[t].pc = "cq_clear"
    /\ \E shown \in BOOLEAN, ok \in StoreOutcomes :
         LET acts == /\ shown
                     /\ is_some(upd[t].data)
                     /\ is_some(upd[t].state)
                     /\ task_stored(unwrap(upd[t].data))
             state == unwrap(upd[t].state)
         IN  /\ user_state' =
                    IF acts /\ state = S_edit
                    THEN put_into_cache(user_state, upd[t].user,
                             S_edit \o <<"_">> \o unwrap(upd[t].data), ok)
                    ELSE user_state
             /\ invoked' =
                    IF acts /\ state = S_delete
                    THEN invoked \cup {<<upd[t].user, "delete_task">>}
                    ELSE invoked
    /\ upd' = [upd EXCEPT ![t].pc = "done", ![t].via = "callback",
                       ![t].state = None]
    /\ UNCHANGED updates
    /\ UNCHANGED <<apiVars, faults, queueVars, readVars, contactVars>>

NextSession ==
    \E t \in Chats :
        \/ MessageStart(t)
        \/ MessageCommand(t)
        \/ MessageData(t)
        \/ ProcessData(t)
        \/ QueryStart(t)
        \/ QueryClear(t)
        \/ QueryAct(t)

(***************************************************************************)
(* The coordination layer's specification: a reliable store.               *)
(***************************************************************************)
\* the directory an earlier run left: task A under key a1
InitTasks == [k \in {"a1"} |-> string_to_task(TaskTextA).task]

InitApi ==
    /\ tasks = InitTasks
    /\ solves = [u \in {} |-> << >>]
    /\ mutex = [locked |-> FALSE, val |-> FALSE]
    /\ lockq = << >>
    /\ h = [p \in Handlers |-> IdleHandler]
    /\ deletedKeys = {}

\* no profile is cached and no read operation has been called
InitReader ==
    /\ profiles = [u \in {} |-> [telegram_id |-> 0]]
    /\ rd = IdleReader

Init == InitApi /\ faults = FALSE /\ InitQueue /\ InitReader /\ InitContact
        /\ InitSession

Next ==
    \E p \in Handlers :
        \/ SubmitStart(p)
        \/ SubmitKeys(p)
        \/ SubmitScan(p)
        \/ LockGranted(p)
        \/ SubmitIsSolved(p)
        \/ SubmitSetGet(p)
        \/ SubmitSetPut(p)
        \/ CreateStart(p)
        \/ CreateCheck(p)
        \/ CreatePut(p)
        \/ CallbackStart(p)
        \/ CallbackGot(p)
        \/ EditStart(p)
        \/ EditPut(p)
        \/ DeleteDel(p)

Spec == Init /\ [][Next]_vars

\* the ledgers an earlier run can have left: none, or participant 1 credited
\* with a task that was deleted afterwards
FaultLedgers == { [u \in {} |-> << >>], [u \in {1} |-> <<"b2">>] }

\* the same program over a store whose commands can fail
InitFaults ==
    /\ tasks = InitTasks
    /\ solves \in FaultLedgers
    /\ mutex = [locked |-> FALSE, val |-> FALSE]
    /\ lockq = << >>
    /\ h = [p \in Handlers |-> IdleHandler]
    /\ deletedKeys = {}
    /\ faults = TRUE
    /\ InitQueue
    /\ InitReader
    /\ InitContact
    /\ InitSession

\* create_task's loop draws an identifier that is free
CreateFree(p) == CreateCheck(p) /\ ~is_some(h'[p].got_task)

\* a handler's awaited store command or lock() completes and the handler runs on
Resume(p) ==
    \/ SubmitKeys(p)
    \/ SubmitScan(p)
    \/ LockGranted(p)
    \/ SubmitIsSolved(p)
    \/ SubmitSetGet(p)
    \/ SubmitSetPut(p)
    \/ CreateFree(p)
    \/ CreatePut(p)
    \/ CallbackGot(p)
    \/ EditPut(p)
    \/ DeleteDel(p)

\* every store round trip completes and the executor polls every ready task
SpecFair == Init /\ [][Next]_vars /\ \A p \in Handlers : WF_vars(Resume(p))

SpecFaults == InitFaults /\ [][Next]_vars

(***************************************************************************)
(* The read operations' specification: one read operation and one          *)
(* submission run against a directory and ledgers that earlier calls left. *)
(***************************************************************************)
\* "Ba\nF\nh": visible task Ba, single answer f
TaskTextBa == <<"B", "a", "\n", "F", "\n", "h">>
\* "hidden:A\n f , G \nh": hidden task A, answers f and g
TaskTextHiddenA == HiddenPrefix \o <<"A", "\n", " ", "f", " ", ",", " ", "G", " ", "\n", "h">>
\* "B\nH\nh": visible task B, single answer h
TaskTextB2 == <<"B", "\n", "H", "\n", "h">>

ReadTasks ==
    [k \in KeyIds |->
        string_to_task(CASE k = "a1" -> TaskTextBa
                         [] k = "b2" -> TaskTextHiddenA
                         [] OTHER -> TaskTextB2).task]

\* ledgers that submissions can have left: nobody has solved anything; a tie
\* behind a test user; an administrator behind a participant; an
\* administrator in the lead; everybody level; a hidden task solved
ReadLedgers ==
    { [u \in {} |-> << >>],
      [u \in {1, 2, 3} |-> CASE u = 1 -> <<"a1">>
                             [] u = 2 -> <<"a1", "c3">>
                             [] OTHER -> <<"c3">>],
      [u \in {1, 3} |-> IF u = 1 THEN <<"c3", "a1">> ELSE <<"a1">>],
      [u \in {2, 3} |-> IF u = 2 THEN <<"b2">> ELSE <<"a1", "b2", "c3">>],
      [u \in {1, 2, 3} |-> <<"c3">>],
      [u \in {1} |-> <<"b2">>] }

\* the profiles receive_user_by_telegram has cached (telegram_id is not
\* stored: serde(skip))
ReadProfiles ==
    { [u \in S |-> [telegram_id |-> 0]] : S \in {{1, 2, 3}, {1, 3}} }

\* the handler task that submits
ReadSubmitters == {1}

InitRead ==
    /\ tasks = ReadTasks
    /\ solves \in ReadLedgers
    /\ profiles \in ReadProfiles
    /\ mutex = [locked |-> FALSE, val |-> FALSE]
    /\ lockq = << >>
    /\ h = [p \in Handlers |-> IdleHandler]
    /\ deletedKeys = {}
    /\ faults = FALSE
    /\ InitQueue
    /\ rd = IdleReader
    /\ InitContact
    /\ InitSession

NextRead ==
    \/ ScoreStart
    \/ ScoreStep
    \/ ListStart
    \/ ListKeys
    \/ ListSolved
    \/ ListTask
    \/ BoardStart
    \/ BoardKeys
    \/ BoardUser
    \/ BoardSolve
    \/ \E p \in ReadSubmitters :
        \/ SubmitStart(p)
        \/ SubmitKeys(p)
        \/ SubmitScan(p)
        \/ SubmitIsSolved(p)
        \/ SubmitSetGet(p)
        \/ SubmitSetPut(p)

SpecRead == InitRead /\ [][NextRead]_vars

(***************************************************************************)
(* The delivery queue's specifications.                                    *)
(***************************************************************************)
NextQueue ==
    \/ Produce
    \/ Grant
    \/ ConsumerRecv
    \/ ConsumerWake
    \/ TransportOk
    \/ TransportErr
    \/ Replenish
    \/ Tick

SpecQueue == Init /\ [][NextQueue]_vars

\* the contact sessions alone
SpecContact == Init /\ [][NextContact]_vars

\* the sessions alone
SpecSession == Init /\ [][NextSession]_vars

(***************************************************************************)
(* Submissions that notify: process_data calls send_notification after     *)
(* try_submit_flag has returned Solved.                                    *)
(***************************************************************************)
\* Config.notify_group
notify_group == {1}

\* api.send_notification(...): sender.send((chat, text)).await; with no
\* permit the handler waits in line
Notify(p) ==
    /\ h[p].pc = "done" /\ h[p].op = "submit" /\ h[p].ret = "Solved"
    /\ nextId <= MaxMsgs
    /\ \E d \in notify_group :
        LET m == [id |-> nextId, dest |-> d]
        IN  IF HasPermit(chan)
            THEN /\ chan' = Append(chan, m)
                 /\ accepted' = accepted \cup {m.id}
                 /\ sendq' = sendq
            ELSE /\ sendq' = Append(sendq, [who |-> "handler", msg |-> m, by |-> p])
                 /\ UNCHANGED <<chan, accepted>>
    /\ nextId' = nextId + 1
    /\ h' = [h EXCEPT ![p].pc = "n_send"]
    /\ UNCHANGED <<c, counter, replTimer, timeouts, invocations, failures,
                   delivered, deferred, sentSinceRepl, deferredSinceRepl, firstToLast>>
    /\ UNCHANGED <<tasks, solves, mutex, lockq, deletedKeys, faults, readVars, contactVars, sessionVars, cap>>

\* a participant sends the answer of task a1
SubmitAnswer(p) == SubmitStart(p) /\ h'[p].try_flag = <<"f">>

NextNotify ==
    \/ \E p \in Handlers :
        \/ SubmitAnswer(p)
        \/ SubmitKeys(p)
        \/ SubmitScan(p)
        \/ LockGranted(p)
        \/ SubmitIsSolved(p)
        \/ SubmitSetGet(p)
        \/ SubmitSetPut(p)
        \/ Notify(p)
    \/ Produce
    \/ Grant
    \/ ConsumerRecv
    \/ TransportOk

SpecNotify == Init /\ [][NextNotify]_vars

\* the same queue with room for one more notification in the channel
InitWide ==
    /\ InitApi /\ faults = FALSE /\ cap = ChanCap + 1 /\ InitSender /\ InitReader
    /\ InitContact
    /\ InitSession

SpecQueueWide == InitWide /\ [][NextQueue]_vars

\* the executor keeps polling the consumer and the replenisher, time passes,
\* and every Transport call returns
SpecQueueFair ==
    /\ SpecQueue
    /\ WF_vars(Grant)
    /\ WF_vars(ConsumerRecv)
    /\ WF_vars(ConsumerWake)
    /\ WF_vars(TransportOk \/ TransportErr)
    /\ WF_vars(Replenish)
    /\ WF_vars(Tick)

(***************************************************************************)
(* Properties of the coordination layer.                                   *)
(***************************************************************************)
Ledger(u) == IF u \in DOMAIN solves THEN solves[u] ELSE << >>

\* the finished try_submit_flag calls of participant u that matched task k
Returned(u, k, ret) ==
    {p \in Handlers : /\ h[p].pc = "done" /\ h[p].op = "submit"
                      /\ h[p].user = u /\ h[p].task_key = k /\ h[p].ret = ret}

\* C1: whatever the interleaving of submissions, a participant's ledger
\* never holds a task key more than once, and holds it exactly once as soon
\* as one of the participant's submissions matching that task has returned.
C1_LedgerHoldsTaskOnce ==
    \A u \in Users, k \in KeyIds :
        /\ Count(Ledger(u), k) <= 1
        /\ (Returned(u, k, "Solved") \cup Returned(u, k, "AlreadySolved") # {})
              => Count(Ledger(u), k) = 1

\* two submissions of one participant for one task were in flight together
\* (the second waited for the lock) and both have returned
C1_Witness ==
    \E p, q \in Handlers, u \in Users, k \in KeyIds :
        /\ p \in Returned(u, k, "Solved")
        /\ q \in Returned(u, k, "AlreadySolved")
        /\ h[q].waited
        /\ Count(Ledger(u), k) = 1

\* the create_task calls that have reserved their key
Reserved(p) ==
    /\ h[p].op = "create"
    /\ h[p].pc = "c_put" \/ (h[p].pc = "done" /\ h[p].ret = "Ok")

\* C2: no create_task reserves a key that was in the directory when it
\* reserved it, and two create_task calls never hold the same key (unless the
\* key was deleted in between).
C2_CreatedKeysUnique ==
    /\ \A p \in Handlers : Reserved(p) => ~h[p].overwrote
    /\ \A p, q \in Handlers :
         (p # q /\ Reserved(p) /\ Reserved(q) /\ h[p].task_key = h[q].task_key)
            => h[p].task_key \in deletedKeys

\* two overlapping creations returned, with different keys, both in the
\* directory beside the task that was there before
C2_Witness ==
    \E p, q \in Handlers :
        /\ p # q
        /\ h[p].op = "create" /\ h[p].pc = "done" /\ h[p].ret = "Ok"
        /\ h[q].op = "create" /\ h[q].pc = "done" /\ h[q].ret = "Ok"
        /\ h[q].waited
        /\ h[p].task_key # h[q].task_key
        /\ {h[p].task_key, h[q].task_key, "a1"} \subseteq DOMAIN tasks
        /\ Cardinality(DOMAIN tasks) = 3

\* the protected regions: from the lock being taken (or handed over) to its release
InRegion(p) ==
    h[p].pc \in {"locked", "s_is_solved", "s_set_get", "s_set_put",
                 "c_check", "c_put", "e_put", "d_del"}

\* C9: at most one operation is inside a protected region (create_task's
\* check-and-store, try_submit_flag's is_solved-then-set_solved, edit_task's
\* write, delete_task's delete) at any time, and the lock is held exactly then.
C9_MutualExclusion ==
    /\ Cardinality({p \in Handlers : InRegion(p)}) <= 1
    /\ mutex.locked <=> (\E p \in Handlers : InRegion(p))

\* a creation is inside its region while a submission that matched waits
C9_Witness ==
    \E p, q \in Handlers :
        /\ h[p].op = "create" /\ h[p].pc = "c_check"
        /\ h[q].op = "submit" /\ h[q].pc = "lockwait"
        /\ lockq = <<q>>

\* C10: of one participant's submissions that matched one task, at most one
\* has returned Solved; as soon as one has returned AlreadySolved exactly one
\* has returned Solved; and a matching submission returns nothing else.
C10_OneSolvedRestAlready ==
    \A u \in Users, k \in KeyIds :
        /\ Cardinality(Returned(u, k, "Solved")) <= 1
        /\ Returned(u, k, "AlreadySolved") # {}
              => Cardinality(Returned(u, k, "Solved")) = 1
        /\ \A p \in Handlers :
             (h[p].pc = "done" /\ h[p].op = "submit" /\ h[p].user = u /\ h[p].task_key = k)
                => h[p].ret \in {"Solved", "AlreadySolved"}

\* the same answer was submitted again without waiting for the lock: the
\* first call returned Solved, the repeated one AlreadySolved
C10_Witness ==
    \E p, q \in Handlers, u \in Users, k \in KeyIds :
        /\ p # q
        /\ Returned(u, k, "Solved") = {p}
        /\ Returned(u, k, "AlreadySolved") = {q}
        /\ ~h[p].waited /\ ~h[q].waited

\* C11: no step removes a task key from a participant's ledger, whatever
\* the operation: a ledger that exists keeps existing and keeps its keys.
C11_LedgerMonotone ==
    [][\A u \in DOMAIN solves :
          /\ u \in DOMAIN solves'
          /\ \A k \in KeyIds : Contains(solves[u], k) => Contains(solves'[u], k)]_vars

\* a participant holds a task that was deleted afterwards
C11_Witness ==
    \E u \in Users, k \in deletedKeys :
        /\ Contains(Ledger(u), k)
        /\ k \notin DOMAIN tasks
        /\ \E p \in Handlers : h[p].pc = "done" /\ h[p].op = "delete"

\* C12 (as claimed): a call of try_submit_flag, create_task, edit_task or
\* delete_task during which a store command failed returns an error.
C12_StoreFaultSurfaces ==
    \A p \in Handlers :
        (h[p].pc = "done" /\ h[p].faulted) => h[p].ret = "Err"

(***************************************************************************)
(* Properties of the read operations.                                      *)
(***************************************************************************)
\* a read operation has returned and no ledger was written during the call
\* (ledgers only grow, so equal ledgers mean no write in between)
ReadDone(op) == rd.pc = "done" /\ rd.op = op /\ solves = rd.snap

\* the participants with a ledger of more than n keys, of at least n keys
Above(n) == {v \in DOMAIN solves : Len(solves[v]) > n}

Level(n, u) == {v \in DOMAIN solves \ {u} : Len(solves[v]) >= n}

\* C13: for a participant outside the test and admin groups get_score
\* returns the ledger's size as the score and the participant's position in
\* the ledgers sorted by descending score as the rank: every strictly higher
\* score is ahead, nothing lower is, and a participant with no ledger comes
\* right behind the list.
C13_ScoreAndRank ==
    (ReadDone("score") /\ rd.user \notin test_group \cup admin_group) =>
        /\ rd.score = Len(Ledger(rd.user))
        /\ Cardinality(Above(rd.score)) < rd.rank
        /\ rd.rank <= Cardinality(Level(rd.score, rd.user)) + 1
        /\ Len(rd.data) = Cardinality(DOMAIN solves)
        /\ \A i, j \in 1..Len(rd.data) : i < j => rd.data[i].score >= rd.data[j].score
        /\ IF rd.user \in DOMAIN solves
           THEN rd.data[rd.rank].key = rd.user
           ELSE rd.rank = Len(rd.data) + 1

\* a participant level with an administrator and behind a test user got rank 2
C13_Witness ==
    /\ ReadDone("score")
    /\ rd.user = 1 /\ rd.rank = 2 /\ rd.score = 1
    /\ Cardinality(Above(1)) = 1
    /\ Cardinality(Level(1, 1)) = 2

\* C14 (as claimed): get_scoreboard returns one pair per stored profile, in
\* descending order of the displayed score, and shows 0 for every participant
\* of the test group or the admin group.
C14_ScoreboardHidesTestAndAdmin ==
    ReadDone("board") =>
        /\ {rd.data[i].key : i \in 1..Len(rd.data)} = DOMAIN profiles
        /\ Len(rd.data) = Cardinality(DOMAIN profiles)
        /\ \A i, j \in 1..Len(rd.data) : i < j => rd.data[i].score >= rd.data[j].score
        /\ \A i \in 1..Len(rd.data) :
              rd.data[i].key \in test_group \cup admin_group => rd.data[i].score = 0

\* C15: for a participant of the test group or the admin group get_score
\* returns the rank u64::MAX and the real size of the ledger.
C15_HiddenRankRealScore ==
    (ReadDone("score") /\ rd.user \in test_group \cup admin_group) =>
        /\ rd.rank = U64_MAX
        /\ rd.score = Len(Ledger(rd.user))

\* an administrator with three solved tasks and a test user with one
C15_Witness ==
    /\ ReadDone("score")
    /\ rd.user \in admin_group /\ rd.rank = U64_MAX /\ rd.score = 3
    /\ \E t \in test_group : t \in DOMAIN solves /\ Len(solves[t]) = 1

\* the tasks list_tasks(u) has to return
OpenTasks(u) ==
    {k \in DOMAIN tasks :
        ~tasks[k].hidden /\ (u = Everything \/ ~Contains(Ledger(u), k))}

\* C16: list_tasks returns exactly the tasks that are not hidden and not in
\* the participant's ledger (all that are not hidden for participant 0), each
\* once, in ascending order of the name.
C16_ListOpenTasksSorted ==
    ReadDone("list") =>
        /\ {rd.data[i].id : i \in 1..Len(rd.data)} = OpenTasks(rd.user)
        /\ Len(rd.data) = Cardinality(OpenTasks(rd.user))
        /\ \A i \in 1..Len(rd.data) : rd.data[i].name = tasks[rd.data[i].id].name
        /\ \A i, j \in 1..Len(rd.data) :
              i < j => ~str_less(rd.data[j].name, rd.data[i].name)

\* both visible tasks listed for participant 0, B before Ba; and one of them
\* left out for a participant who solved it
C16_Witness ==
    /\ ReadDone("list")
    /\ \/ /\ rd.user = Everything /\ Len(rd.data) = 2
          /\ rd.data[1].id = "c3" /\ rd.data[2].id = "a1"
          /\ \E u \in DOMAIN solves : Contains(solves[u], "a1")
       \/ /\ rd.user = 1 /\ Len(rd.data) = 1 /\ rd.data[1].id = "c3"
          /\ Contains(Ledger(1), "a1") /\ Len(Ledger(1)) = 1

\* two characters are the same letter, whatever the case
SameLetter(a, b) ==
    \/ a = b
    \/ \E i \in 1..Len(UpperChars) : {a, b} = {UpperChars[i], LowerChars[i]}

\* text is the answer with other letter case and whitespace around it
DiffersByCaseAndMargin(text, answer) ==
    \E i \in 1..(Len(text) + 1) :
        /\ i + Len(answer) - 1 <= Len(text)
        /\ \A n \in 1..Len(text) :
              IF n < i \/ n > i + Len(answer) - 1
              THEN IsSpace(text[n])
              ELSE SameLetter(text[n], answer[n - i + 1])

\* the tasks one of whose accepted answers the text is, up to case and margin
Accepting(text) ==
    {k \in DOMAIN tasks :
        \E i \in 1..Len(tasks[k].flag.vals) :
            DiffersByCaseAndMargin(text, tasks[k].flag.vals[i])}

\* the texts a participant can have sent in the call of handler p
SentBy(rec) == {text \in SubmitTexts : to_lowercase(trim(text)) = rec.try_flag}

\* a finished try_submit_flag: accepted when the text is an answer up to case
\* and margin, NotAFlag when it is no answer of any task
C17_Result ==
    \A p \in Handlers : (h[p].pc = "done" /\ h[p].op = "submit") =>
        \A text \in SentBy(h[p]) :
            IF Accepting(text) # {}
            THEN /\ h[p].ret \in {"Solved", "AlreadySolved"}
                 /\ h[p].task_key \in Accepting(text)
                 /\ Contains(Ledger(h[p].user), h[p].task_key)
            ELSE h[p].ret = "NotAFlag"

\* no step of a call whose text is no answer of any task writes a ledger
C17_Step ==
    \A p \in Handlers :
        (h'[p] # h[p] /\ h'[p].op = "submit"
            /\ \A text \in SentBy(h'[p]) : Accepting(text) = {}) =>
        solves' = solves

\* C17: try_submit_flag accepts a text that differs from an accepted answer
\* only by surrounding whitespace or letter case, for single-answer and
\* multi-answer tasks, and answers NotAFlag, writing no ledger, to a text
\* that is no accepted answer of any task.
C17_NormalizedMatch == []C17_Result /\ [][C17_Step]_vars

\* "G " was accepted as the answer g of a multi-answer task
C17_Witness ==
    \E p \in Handlers :
        /\ h[p].pc = "done" /\ h[p].ret = "Solved"
        /\ h[p].try_flag = <<"g">>
        /\ <<"G", " ">> \in SentBy(h[p])
        /\ tasks[h[p].task_key].flag.multi
        /\ Contains(Ledger(h[p].user), h[p].task_key)

\* the tasks whose accepted answers contain the normalised text
MatchingKeys(try_flag) ==
    {k \in DOMAIN tasks : flag_matches(tasks[k].flag, try_flag)}

\* C18: list_tasks never returns a hidden task, and a submission of an
\* answer that only hidden tasks accept is credited as for a visible task:
\* Solved or AlreadySolved, with the hidden task's key once in the ledger.
C18_HiddenUnlistedButCredited ==
    /\ (rd.pc = "done" /\ rd.op = "list") =>
            \A i \in 1..Len(rd.data) : ~tasks[rd.data[i].id].hidden
    /\ \A p \in Handlers :
         (/\ h[p].pc = "done" /\ h[p].op = "submit"
          /\ MatchingKeys(h[p].try_flag) # {}
          /\ \A k \in MatchingKeys(h[p].try_flag) : tasks[k].hidden) =>
            /\ h[p].ret \in {"Solved", "AlreadySolved"}
            /\ tasks[h[p].task_key].hidden
            /\ Count(Ledger(h[p].user), h[p].task_key) = 1

\* a hidden task was solved by a submission and the full listing leaves it out
C18_Witness ==
    /\ rd.pc = "done" /\ rd.op = "list" /\ rd.user = Everything
    /\ Len(rd.data) = 2
    /\ \E p \in Handlers :
        /\ h[p].pc = "done" /\ h[p].ret = "Solved"
        /\ tasks[h[p].task_key].hidden
        /\ Count(Ledger(h[p].user), h[p].task_key) = 1

\* C21 (as claimed): whenever set_solved appends a task key to a ledger, the
\* task is in the directory at that moment and its accepted answers contain
\* the submitted text.
C21_CreditOnlyLiveMatch ==
    [][\A p \in Handlers :
          (h[p].pc = "s_set_get" /\ h'[p].pc = "s_set_put")
             => /\ h[p].task_key \in DOMAIN tasks
                /\ flag_matches(tasks[h[p].task_key].flag, h[p].try_flag)]_vars

\* C22 (as claimed): the set of task ids in the directory changes only when
\* create_task stores its task, which adds exactly one new id, and when
\* delete_task deletes, which removes exactly the given id; edit_task's write
\* leaves the set as it is.
C22_IdsChangeByCreateAndDelete ==
    [][/\ \A p \in Handlers :
            /\ (h[p].pc # "c_put" /\ h'[p].pc = "c_put")
                  => /\ h'[p].task_key \notin DOMAIN tasks
                     /\ DOMAIN tasks' = DOMAIN tasks \cup {h'[p].task_key}
            /\ (h[p].pc # "d_del" /\ h'[p].pc = "d_del")
                  => DOMAIN tasks' = DOMAIN tasks \ {h'[p].task_key}
            /\ (h[p].pc # "e_put" /\ h'[p].pc = "e_put")
                  => DOMAIN tasks' = DOMAIN tasks
       /\ (DOMAIN tasks' # DOMAIN tasks)
            => \E p \in Handlers :
                  h[p].pc # h'[p].pc /\ h'[p].pc \in {"c_put", "d_del"}]_vars

\* C23 (as claimed): also when reads of the store can fail (a ledger read as
\* absent), no ledger ever holds a task key twice and no step of
\* try_submit_flag removes a key from a ledger.
C23_LedgerSoundUnderReadFaults ==
    /\ [](\A u \in Users, k \in KeyIds : Count(Ledger(u), k) <= 1)
    /\ [][\A p \in Handlers :
             (h[p].pc = "s_set_get" /\ h'[p].pc = "s_set_put")
                => \A k \in KeyIds :
                      Contains(Ledger(h[p].user), k)
                         => Contains(solves'[h[p].user], k)]_vars

\* the keys the scan of a try_submit_flag call has gone past (the directory
\* is enumerated once, every key once)
Scanned(rec) ==
    DOMAIN tasks \ ({rec.task_key} \cup {rec.keys[i] : i \in 1..Len(rec.keys)})

\* the ledger set_solved read before it appended
Prior(rec) == IF is_some(rec.got_solve) THEN unwrap(rec.got_solve) ELSE << >>

\* a call that stopped scanning stopped at the first key, in the order of
\* the enumeration, whose task accepts the text; and once it has appended,
\* the ledger is the one it read plus that key
C24_FirstMatch ==
    \A p \in Handlers :
        /\ (h[p].op = "submit"
              /\ h[p].pc \in {"lockwait", "locked", "s_is_solved", "s_set_get", "s_set_put"})
             => /\ h[p].task_key \in MatchingKeys(h[p].try_flag)
                /\ Scanned(h[p]) \cap MatchingKeys(h[p].try_flag) = {}
        /\ (h[p].op = "submit" /\ h[p].pc = "s_set_put")
             => Ledger(h[p].user) = Append(Prior(h[p]), h[p].task_key)

\* a ledger is written by the one append of a call only; the return writes
\* nothing, and AlreadySolved is returned for a key the ledger holds
C24_Step ==
    /\ solves' # solves
         => \E p \in Handlers : h[p].pc = "s_set_get" /\ h'[p].pc = "s_set_put"
    /\ \A p \in Handlers :
         (h[p].op = "submit" /\ h[p].pc # "done" /\ h'[p].pc = "done")
            => /\ solves' = solves
               /\ h'[p].ret = "AlreadySolved"
                    => (h[p].pc = "s_is_solved"
                          /\ Contains(Ledger(h[p].user), h'[p].task_key))

\* C24: one try_submit_flag call credits at most one task: of the tasks that
\* accept the text only the first in the order of the enumeration is
\* considered, and when that one is solved already the call returns
\* AlreadySolved and credits no later matching task.
C24_AtMostOneCredit == []C24_FirstMatch /\ [][C24_Step]_vars

\* "f" is accepted by a1 and b2; the call returned AlreadySolved for a1 and
\* b2 is not in the participant's ledger
C24_Witness ==
    \E p \in Handlers :
        /\ h[p].pc = "done" /\ h[p].op = "submit" /\ h[p].ret = "AlreadySolved"
        /\ h[p].task_key = "a1"
        /\ {"a1", "b2"} \subseteq MatchingKeys(h[p].try_flag)
        /\ ~Contains(Ledger(h[p].user), "b2")

\* whenever no operation is inside a protected region the lock is free and
\* nobody waits for it: every path out of a region has released the lock
\* and passed it on
C29_Released ==
    (\A p \in Handlers : ~InRegion(p)) => (~mutex.locked /\ ~mutex.val /\ lockq = << >>)

\* the operation of handler p waits for the lock or is inside its region
Pending(p) == h[p].pc = "lockwait" \/ InRegion(p)

\* whenever an operation waits in lock(), a state follows in which no
\* operation waits or holds the lock: a handler runs one operation and an
\* operation does not go back, so every operation that waited has acquired
\* the lock and returned by then (as long as create_task has a free
\* identifier to draw)
C29_WaiterCompletes ==
    (\E p \in Handlers : h[p].pc = "lockwait")
        ~> ((\A p \in Handlers : ~Pending(p)) \/ DOMAIN tasks = KeyIds)

\* C29: every protected operation releases the lock on every path before it
\* returns, so, with store round trips that complete and a collision loop
\* that draws a free identifier, every operation waiting for the lock
\* acquires it and completes.
C29_LockReleasedWaitersComplete == []C29_Released /\ C29_WaiterCompletes

\* an operation that had to wait for the lock has returned, the lock is free
\* and nobody waits
C29_Witness ==
    \E p, q \in Handlers :
        /\ p # q
        /\ h[p].pc = "done" /\ h[p].waited
        /\ h[q].pc = "done" /\ h[q].op = "create" /\ h[q].ret = "Ok"
        /\ ~mutex.locked /\ lockq = << >>

\* the notification of handler p waits for a slot of the channel
Suspended(p) ==
    \E i \in 1..Len(sendq) : sendq[i].who = "handler" /\ sendq[i].by = p

\* C30: a handler that has called the channel's send, whether the call has
\* completed or waits for a slot, does not hold the lock: when the lock is
\* held then, another handler is inside its protected region, and whoever
\* waits for the lock waits for that handler.
C30_NoSendUnderLock ==
    \A p \in Handlers :
        (h[p].pc = "n_send")
            => /\ ~InRegion(p)
               /\ (mutex.locked \/ lockq # << >>)
                     => \E q \in Handlers \ {p} : InRegion(q)

\* a handler's notification waits for a slot of the full channel while a
\* submission of another handler is inside its protected region
C30_Witness ==
    \E p, q \in Handlers :
        /\ p # q
        /\ Suspended(p)
        /\ Len(chan) = cap
        /\ h[q].op = "submit" /\ h[q].pc = "s_set_put"

\* the tasks that texts of three lines or more parse to
WellFormedTasks ==
    {string_to_task(text).task : text \in {t \in TaskTexts : Len(lines(t)) >= 3}}

\* a text is rejected exactly when it has fewer than three lines, and an
\* operation that is waiting for the lock or inside its region carries a
\* task parsed from a text of three lines or more; a rejected create_task
\* holds no identifier and never waited for the lock
C31_OnlyWellFormedProceeds ==
    /\ \A text \in TaskTexts : string_to_task(text).ok <=> Len(lines(text)) >= 3
    /\ \A p \in Handlers :
         /\ (h[p].op \in {"create", "edit"} /\ Pending(p))
               => h[p].task \in WellFormedTasks
         /\ (h[p].op = "create" /\ h[p].pc = "done" /\ h[p].ret = "Err")
               => (h[p].task_key = "" /\ ~h[p].waited)

\* the step in which create_task or edit_task returns an error touches
\* neither the directory nor a ledger nor the lock
C31_Step ==
    \A p \in Handlers :
        (h[p].pc # "done" /\ h'[p].pc = "done" /\ h'[p].ret = "Err")
           => /\ h[p].pc \in {"idle", "edit_id"}
              /\ h'[p].op \in {"create", "edit"}
              /\ UNCHANGED <<tasks, solves, mutex, lockq, deletedKeys>>

\* C31: create_task and edit_task with a text of fewer than three lines
\* return an error without taking the lock and without writing to the
\* store: directory and ledgers are as before and no identifier is drawn.
C31_ShortInputRejected == []C31_OnlyWellFormedProceeds /\ [][C31_Step]_vars

\* a create_task and an edit_task of a selected task were both given two
\* lines and returned the error; directory, ledgers and lock are untouched
C31_Witness ==
    \E p, q \in Handlers :
        /\ h[p].pc = "done" /\ h[p].op = "create" /\ h[p].ret = "Err"
        /\ h[q].pc = "done" /\ h[q].op = "edit" /\ h[q].ret = "Err"
        /\ tasks = InitTasks /\ DOMAIN solves = {}
        /\ ~mutex.locked /\ lockq = << >>

\* C32 (as claimed): a finished retrieve_and_erase_contact has returned the
\* texts appended for the participant since the previous flush, in append
\* order and joined by single newlines with nothing before the first, and
\* has left the buffer empty.
C32_FlushReturnsAppended ==
    (ct.pc = "done" /\ ct.op = "flush")
        => /\ ct.ret = join(ct.expect, "\n")
           /\ ct.user \in DOMAIN contacts /\ contacts[ct.user] = << >>

\* the session states that lead to a directory mutation or a broadcast
AdminStates == {S_create, S_edit, S_delete, S_message}

\* C33: a participant outside the admin group never has the session state
\* "create", "edit", "delete", "message" or "edit_<id>", whatever text
\* messages and callback queries the participant sends, and create_task,
\* edit_task and delete_task are never called for that participant.
C33_AdminOnlyMutations ==
    \A u \in Participants :
        ~is_admin(u) =>
            /\ u \in DOMAIN user_state =>
                 /\ user_state[u] \notin AdminStates
                 /\ ~starts_with(user_state[u], S_edit \o <<"_">>)
            /\ \A f \in {"create_task", "edit_task", "delete_task"} :
                 <<u, f>> \notin invoked

\* a participant outside the admin group has sent /create and was refused,
\* and an administrator's /create and text have called create_task
C33_Witness ==
    /\ \E t \in Chats :
         /\ upd[t].pc = "done" /\ upd[t].via = "command"
         /\ ~is_admin(upd[t].user)
         /\ upd[t].text = <<"/">> \o S_create
    /\ \E u \in Participants : is_admin(u) /\ <<u, "create_task">> \in invoked

(***************************************************************************)
(* Properties of the delivery queue.                                       *)
(***************************************************************************)
InChan(i) == \E n \in 1..Len(chan) : chan[n].id = i

\* the consumer took the notification out and has not finished with it
Held(i) == c.pc # "recv" /\ c.msg.id = i

Delivered(i) == \E n \in 1..Len(delivered) : delivered[n].id = i

TimesDelivered(i) == Cardinality({n \in 1..Len(delivered) : delivered[n].id = i})

DeliveredTo(d) == {n \in 1..Len(delivered) : delivered[n].dest = d}

\* C3: every notification the intake channel accepted is in the channel,
\* held by the consumer loop, or accepted by the Transport; none is dropped.
C3_NoNotificationDropped ==
    \A i \in accepted : InChan(i) \/ Held(i) \/ Delivered(i)

\* a notification was deferred for spacing, failed in the Transport as often
\* as it can, and is delivered
C3_Witness ==
    \E i \in accepted :
        i \in deferred /\ failures[i] = MaxFail /\ MaxFail > 0 /\ Delivered(i)

\* C4 (as claimed): with the consumer, the replenisher and the clock
\* scheduled fairly and a Transport that fails each notification at most
\* MaxFail times, every accepted notification is eventually delivered.
C4_EventualDelivery ==
    \A i \in 1..MaxMsgs : (i \in accepted) ~> Delivered(i)

\* C5 (as claimed): a consumer waiting in the re-enqueue after a Transport
\* failure always gets back to dequeuing.
C5_ResendReturnsToDequeue ==
    (c.pc = "resend") ~> (c.pc = "recv")

\* C6: a notification the Transport accepted after N failures was handed to
\* the Transport N+1 times, was accepted once, and is no longer queued or held.
C6_OneNetDelivery ==
    \A i \in 1..MaxMsgs :
        Delivered(i) =>
            /\ TimesDelivered(i) = 1
            /\ invocations[i] = failures[i] + 1
            /\ ~InChan(i) /\ ~Held(i)
            /\ \A n \in 1..Len(sendq) : sendq[n].msg.id # i

\* a notification failed, was retried and delivered, and the queue is drained
C6_Witness ==
    \E i \in 1..MaxMsgs :
        /\ failures[i] >= 1 /\ invocations[i] = failures[i] + 1
        /\ TimesDelivered(i) = 1
        /\ c.pc = "recv" /\ chan = << >> /\ sendq = << >>

\* C7: between two replenishments of the counter the Transport is invoked
\* at most LIMIT_RATE_PER_ALL times.
C7_GlobalCeiling == sentSinceRepl <= LIMIT_RATE_PER_ALL

\* the quota of the window is used up by Transport calls and the next
\* notification waits in the poll sleep
C7_Witness ==
    /\ sentSinceRepl = LIMIT_RATE_PER_ALL
    /\ counter = 0
    /\ c.pc = "quota_sleep"

IsAppend(a, b) == Len(b) = Len(a) + 1 /\ SubSeq(b, 1, Len(a)) = a

\* the channel is within its bound, and every notification a producer has
\* made is accepted or waits in its send()
C19_Bound ==
    /\ Len(chan) <= ChanCap
    /\ \A i \in 1..(nextId - 1) :
          \/ i \in accepted
          \/ \E n \in 1..Len(sendq) :
                sendq[n].who = "producer" /\ sendq[n].msg.id = i

\* the channel changes by an append, or by the consumer's recv() taking the
\* head (and, on a deferral, putting it back at the tail)
C19_Step ==
    chan' # chan =>
        \/ IsAppend(chan, chan')
        \/ /\ c.pc = "recv" /\ chan # << >>
           /\ chan' \in {Tail(chan), Append(Tail(chan), Head(chan))}

\* C19: the intake channel never holds more than its bound; a producer that
\* finds it full waits and its notification is neither refused nor dropped;
\* only the consumer loop takes notifications out.
C19_BoundedIntake == []C19_Bound /\ [][C19_Step]_vars

\* the channel is full and a producer waits for a slot
C19_Witness ==
    /\ Len(chan) = ChanCap
    /\ sendq # << >>
    /\ \A n \in 1..Len(sendq) : sendq[n].who = "producer"

\* C20 (as claimed): the consumer is never suspended in the push-back send()
\* of a deferred notification when the channel is full; it sleeps out the
\* spacing window instead.
C20_DeferralNeverSuspends ==
    ~(c.pc = "push_back" /\ Len(chan) = ChanCap /\ c.msg.id \in deferred)

\* C25: the quota counter is within 0..LIMIT_RATE_PER_ALL in every reachable
\* state, however the consumer's load and decrement and the replenisher's
\* store interleave.
C25_CounterInRange == counter \in 0..LIMIT_RATE_PER_ALL

\* the replenisher stored the full quota while the consumer, having loaded
\* a counter of 0, was in its poll sleep
C25_Witness ==
    /\ c.pc = "quota_sleep"
    /\ counter = LIMIT_RATE_PER_ALL
    /\ delivered # << >>

\* C26: every dequeue that passes the quota check takes exactly one unit,
\* whether its notification then goes to the Transport (and is delivered or
\* fails) or is deferred to the tail, and no unit comes back: the Transport
\* calls and deferrals since the last replenishment are the units taken
\* since then, LIMIT_RATE_PER_ALL at most.
C26_UnitPerDequeue ==
    /\ sentSinceRepl + deferredSinceRepl = LIMIT_RATE_PER_ALL - counter
    /\ sentSinceRepl + deferredSinceRepl <= LIMIT_RATE_PER_ALL

\* one window's quota went to a Transport call that failed and to a
\* deferral, and the next dequeue waits for the replenishment
C26_Witness ==
    /\ sentSinceRepl = 1
    /\ deferredSinceRepl = LIMIT_RATE_PER_ALL - 1
    /\ deferredSinceRepl >= 1
    /\ counter = 0
    /\ c.pc = "quota_sleep"
    /\ \E i \in 1..MaxMsgs : failures[i] >= 1

\* the recorded last-sent time of destination d is the same after the step
\* (the model keeps the time elapsed since it, which only the clock moves)
SameStamp(d) ==
    /\ d \in DOMAIN timeouts' <=> d \in DOMAIN timeouts
    /\ d \in DOMAIN timeouts => timeouts'[d] = timeouts[d]

\* the clock advanced and no destination's recorded time was written
ClockOnly ==
    timeouts' = [d \in DOMAIN timeouts |->
                    Min(timeouts[d] + TickMs, LIMIT_RATE_PER_CHAT)]

\* C27: a destination's last-sent timestamp changes only in a step in which
\* a Transport call to that destination succeeds; a failed Transport call, a
\* spacing deferral and a delivery to another destination leave it as it is.
C27_StampOnlyOnSuccess ==
    [][\A d \in Dests :
          /\ (~SameStamp(d) /\ ~ClockOnly)
                => /\ c.pc = "transport" /\ c.msg.dest = d
                   /\ delivered' = Append(delivered, c.msg)
                   /\ d \in DOMAIN timeouts' /\ timeouts'[d] = 0
          /\ (c.pc = "transport" /\ failures' # failures) => SameStamp(d)
          /\ (deferredSinceRepl' = deferredSinceRepl + 1) => SameStamp(d)
          /\ (delivered' # delivered /\ c.msg.dest # d) => SameStamp(d)]_vars

\* a Transport call to a destination failed and left it without a recorded
\* time, after a delivery to the other destination; the notification is
\* back in the channel
C27_Witness ==
    \E k \in 1..Len(chan) :
        /\ failures[chan[k].id] >= 1
        /\ chan[k].dest \notin DOMAIN timeouts
        /\ DOMAIN timeouts # {}

\* positions j < k of the delivery history hold notifications of one
\* destination in the opposite of their enqueue order (ids are given in
\* enqueue order)
Overtaken(j, k) ==
    /\ j < k
    /\ delivered[j].dest = delivered[k].dest
    /\ delivered[j].id > delivered[k].id

\* C28: as long as no notification has been deferred for spacing and no
\* Transport call has failed, the Transport has accepted the notifications
\* in their enqueue order; the order to one destination is not kept in
\* general (the witness is a reachable state in which it is not).
C28_InOrderUnlessRequeued ==
    (deferred = {} /\ \A i \in 1..MaxMsgs : failures[i] = 0)
        => \A j, k \in 1..Len(delivered) :
              j < k => delivered[j].id < delivered[k].id

\* a notification enqueued later to a destination was accepted by the
\* Transport before an earlier one to the same destination, which had been
\* deferred for spacing or re-enqueued after a failure
C28_Witness ==
    \E j, k \in 1..Len(delivered) :
        /\ Overtaken(j, k)
        /\ delivered[k].id \in deferred \/ failures[delivered[k].id] >= 1

====
